---- MODULE Spec2Model ----
(***************************************************************************)
(* The spawn_agent / return_progress orchestration core of codex-rs:       *)
(*   core/src/tools/handlers/spawn_agent.rs     (tool handler + monitor)   *)
(*   core/src/tools/handlers/return_progress.rs (child -> parent call)     *)
(*   core/src/child_agent_bridge.rs             (per-child bridge state)   *)
(*   orchestrator/src/validation.rs             (checklist validation)     *)
(*   orchestrator/src/truncation.rs             (output truncator)         *)
(* The conversation manager (bridge registry, new_conversation) and the    *)
(* parent Session (event sink, active-child index, inject_input) are       *)
(* collaborators whose code is not part of the sources; they are modelled  *)
(* from their documented interface.                                        *)
(*                                                                         *)
(* One atomic step of the model is the code between two suspension points  *)
(* (.await) of a task.                                                     *)
(***************************************************************************)
EXTENDS Naturals, Sequences, FiniteSets, TLC

None == "none"

\* The spawn_agent function calls of one parent turn (call-1, call-2).
Calls == {"call-1", "call-2"}

\* args.task_id values.  Task ids are opaque strings, so the first call's is
\* named child-1 and the second call's either repeats it or differs.
TaskIds == {"child-1", "child-2"}

TaskIdsOf(h) == IF h = "call-1" THEN {"child-1"} ELSE TaskIds

\* args.profile values
ProfileArgs == {None, "agent-a"}

\* parent_config.active_agent_profiles
ActiveAgentProfiles == <<"agent-a">>

\* A Config, by what the handler reads and sets of it: the profile it was
\* loaded for (None for the parent's own), its active_agent_profiles and
\* its model_reasoning_effort
Config(profile, active_agent_profiles, effort) ==
    [profile |-> profile, active_agent_profiles |-> active_agent_profiles,
     model_reasoning_effort |-> effort]

NoConfig == Config(None, << >>, None)

\* The parent's configuration: one default child profile, medium effort
DefaultParentConfig == Config(None, ActiveAgentProfiles, "medium")

\* The parent configurations a turn may run under: none, one or two default
\* child profiles, and an effort that is low already or not
ParentConfigs ==
    { Config(None, a, e) : a \in {<< >>, ActiveAgentProfiles, <<"agent-b", "agent-a">>},
                           e \in {"low", "high"} }

\* Bound: number of non-terminal events a child produces before its stream
\* ends (terminal event or closure).
MaxEvents == 1

\* Bound: number of return_progress calls a child issues.
MaxProgressCalls == 1

\* Event kinds of the child's stream.  TaskStarted always yields a progress
\* message, AgentReasoning is one of the kinds the monitor ignores.
NonTerminalKinds == {"TaskStarted", "AgentReasoning"}
TerminalKinds == {"TaskComplete", "Error", "TurnAborted"}

\* args.progress of a child's successive return_progress calls: every call
\* reports a text of its own.
ProgressTexts == << "progress-1", "progress-2", "progress-3" >>

ProgressText(n) == IF n < Len(ProgressTexts) THEN ProgressTexts[n] ELSE ProgressTexts[Len(ProgressTexts)]

\* args.progress may be the empty string
EmptyProgress == ""

\* ReturnProgressArgs with a progress text of `texts`
ProgressArgsOf(texts) ==
    { [task_id |-> t, progress |-> p, is_final |-> f] :
        t \in {None} \cup TaskIds, p \in texts, f \in BOOLEAN }

\* Arguments of the n-th return_progress call the model draws from.
ProgressArgs(n) == ProgressArgsOf({ProgressText(n)})

\* A string the child produces, by the measures the monitor takes of it:
\* its number of chars, the bytes per char (len() counts bytes, take() counts
\* chars) and whether it holds a newline.  id names the content.
Text(id, chars, width, newline) ==
    [id |-> id, chars |-> chars, width |-> width, newline |-> newline]

\* Option::None of an optional string
NoText == Text(None, 0, 1, FALSE)

\* OUTPUT_TOKEN_LIMIT
OUTPUT_TOKEN_LIMIT == 5000

\* Number of chars of "\n\n[Output truncated at 5k token limit]"
MarkerChars == 38

\* progress_interval, in ms
ProgressIntervalMs == 900

\* progress_buffer.len() > 500 forces a flush
FlushBytes == 500

\* the snippet is the last 400 chars of a buffer longer than 400
SnippetChars == 400

\* Bound: number of AgentMessageDelta / AgentMessage events of a child
MaxMessages == 2

\* Bound: the step, in ms, by which the model's clock advances
TickMs == 450

\* The texts of the child's deltas and messages: the empty text, a short
\* one, one with a line break, one of exactly the budget's size and one of
\* three-byte chars that exceeds it.
EmptyText == Text("empty", 0, 1, FALSE)
ShortText == Text("note", 4, 1, FALSE)
LineText == Text("line", 5, 1, TRUE)
FullText == Text("full", OUTPUT_TOKEN_LIMIT * 4, 1, FALSE)
WideText == Text("wide", OUTPUT_TOKEN_LIMIT + 2000, 3, FALSE)

BudgetTexts == {EmptyText, ShortText, LineText, FullText, WideText}

\* The pieces the monitor itself pushes
Marker == Text("marker", MarkerChars, 1, TRUE)
LineBreak == Text("newline", 1, 1, TRUE)

TextKinds == {"AgentMessageDelta", "AgentMessage"}

\* participants of the barrier of the children's test_sync_tool call
BarrierParticipants == 2

\* TurnAbortReason
AbortReasons == {"Interrupted", "Replaced", "ReviewEnded"}

\* The reasons the child of call h may be aborted for: every one for the
\* first call, an interruption for its sibling.
AbortReasonsOf(h) == IF h = "call-1" THEN AbortReasons ELSE {"Interrupted"}

VARIABLES
    hpc,            \* handler position of each spawn_agent call
    herr,           \* the tool error a call returned (None if none)
    args,           \* parsed SpawnAgentArgs of each call
    conv,           \* child.conversation_id of each call
    registry,       \* ConversationManager's bridge registry
    bridgeState,    \* ChildAgentBridgeState of each call's bridge
    sink,           \* events sent to the parent session on behalf of each call
    child,          \* phase of the child conversation
    activeChildren, \* parent session's active-child index (agent id -> conversation)
    injected,       \* result of inject_input for each call
    chan,           \* oneshot outcome channel of each call
    result,         \* ToolOutput of each call
    mpc,            \* monitor task position
    recv,           \* events the monitor received from next_event(), in order
    mfinal,         \* monitor local: bridge_final_markdown
    rpc,            \* position of the child's return_progress call
    rpArgs,         \* arguments of the return_progress call in flight
    rpBridge,       \* bridge the return_progress call looked up
    rpResult,       \* result of the child's last return_progress call
    rpCount,        \* number of return_progress calls issued
    removals,       \* number of removes that reported a removal, per call's bridge
    parentAlive,    \* the parent Session has not been dropped
    payload,        \* what the event last received by the monitor carries
    accumulated_output, \* monitor local, as the sequence of the pieces pushed
    output_token_count, \* monitor local
    truncated,      \* monitor local
    last_message,   \* monitor local: text of the last AgentMessage
    progress_buffer,    \* monitor local
    emitAge,        \* last_progress_emit.elapsed(), saturating at the interval
    flushAge,       \* time since the last delta-derived AgentProgress was sent
    flushes,        \* the delta-derived AgentProgress emissions, in order
    arrived,        \* the calls whose child has reached the test's barrier
    parentConfig,   \* session.services.config of the parent
    childConfig,    \* child_config of each call
    task,           \* the TaskSpec whose checklist is validated
    validation,     \* the ValidationResult of the task
    truncator,      \* an OutputTruncator
    lastCall        \* the latest truncate_if_needed call: its content and what it returned

\* The monitor's output budget and its progress throttle
budgetVars == << accumulated_output, output_token_count, truncated, last_message >>
throttleVars == << progress_buffer, emitAge, flushAge, flushes >>
configVars == << parentConfig, childConfig >>
orchestratorVars == << task, validation, truncator, lastCall >>

sessionVars == << hpc, herr, args, conv, registry, bridgeState, sink, child,
                  activeChildren, injected, chan, result, mpc, recv, mfinal,
                  rpc, rpArgs, rpBridge, rpResult, rpCount, removals, parentAlive,
                  payload, budgetVars, throttleVars, arrived, configVars >>

vars == << hpc, herr, args, conv, registry, bridgeState, sink, child,
           activeChildren, injected, chan, result, mpc, recv, mfinal,
           rpc, rpArgs, rpBridge, rpResult, rpCount, removals, parentAlive,
           payload, budgetVars, throttleVars, arrived, configVars,
           orchestratorVars >>

-----------------------------------------------------------------------------
(* Values *)

\* ConversationManager::new_conversation gives every conversation its own
\* id; the id of the conversation created for a call is named after the call.
FreshId(h) == h

\* A summary: its heading line and the body below it
Markdown(heading, body) == [heading |-> heading, body |-> body]

NoMarkdown == Markdown(None, None)

NoOutcome == [success |-> FALSE, markdown |-> NoMarkdown, injected_into_turn |-> FALSE]

NoResult == [content |-> None, agent_id |-> None, status |-> None, success |-> FALSE,
             markdown |-> NoMarkdown, injected_into_turn |-> FALSE]

NoProgressArgs == [task_id |-> None, progress |-> None, is_final |-> FALSE]

\* What a return_progress call returns: the error, or {status: "ok", is_final}
ProgressErr(e) == [status |-> e, is_final |-> FALSE]
ProgressOk(is_final) == [status |-> "ok", is_final |-> is_final]

NoProgressResult == ProgressErr(None)

\* Event sent to the parent session (Event.id is always the call's sub_id).
ParentEvent(type, agent_id, detail, success) ==
    [type |-> type, agent_id |-> agent_id, detail |-> detail, success |-> success]

\* What an event of the child's stream carries: the text of a delta or a
\* message, TaskComplete's last_agent_message, TurnAborted's reason.
Payload(text, reason) == [text |-> text, reason |-> reason]

NoPayload == Payload(NoText, None)

\* The payloads an event of kind k of call h's child may carry, its texts drawn from `texts`
Payloads(h, k, texts) ==
    CASE k = "TurnAborted" -> { Payload(NoText, r) : r \in AbortReasonsOf(h) }
      [] k = "TaskComplete" -> { Payload(t, None) : t \in {NoText} \cup (texts \cap {ShortText}) }
      [] k \in TextKinds -> { Payload(t, None) : t \in texts }
      [] OTHER -> { NoPayload }

AgentSpawned(h) == ParentEvent("AgentSpawned", args[h].task_id, "orchestrator-main", FALSE)
AgentEvent(h, kind) == ParentEvent("AgentEvent", args[h].task_id, kind, FALSE)
AgentProgress(agent_id, message) == ParentEvent("AgentProgress", agent_id, message, FALSE)
AgentCompleted(h, success, summary) == ParentEvent("AgentCompleted", args[h].task_id, summary, success)
BackgroundEvent(h, message) == ParentEvent("BackgroundEvent", args[h].task_id, message, FALSE)

-----------------------------------------------------------------------------
(* Strings, by their measures *)

Min(a, b) == IF a <= b THEN a ELSE b

\* usize::div_ceil
DivCeil(n, d) == (n + d - 1) \div d

\* str::len
Bytes(t) == t.chars * t.width

\* chars().take(k).collect()
TakeChars(t, k) == [t EXCEPT !.chars = Min(t.chars, k)]

\* String::push_str on a string kept as the sequence of its pieces
PushStr(out, t) == IF t.chars = 0 THEN out ELSE Append(out, t)

RECURSIVE OutputChars(_)
OutputChars(out) ==
    IF out = << >> THEN 0 ELSE out[1].chars + OutputChars(Tail(out))

Markers(out) == Len(SelectSeq(out, LAMBDA t : t = Marker))

\* progress_buffer, by its measures
EmptyBuffer == [chars |-> 0, bytes |-> 0, newline |-> FALSE]

BufferPush(b, t) ==
    [chars |-> b.chars + t.chars, bytes |-> b.bytes + Bytes(t),
     newline |-> b.newline \/ t.newline]

-----------------------------------------------------------------------------
(* Orchestrator: checklist validation (validation.rs) and output           *)
(* truncation (truncation.rs)                                              *)

\* ChecklistItem { description, completed }
ChecklistItem(description, completed) ==
    [description |-> description, completed |-> completed]

\* TaskSpec, reduced to the field validation reads
TaskSpec(checklist) == [checklist |-> checklist]

\* Descriptions of checklist items; two items may carry the same description
Descriptions == {"write tests", "update docs"}

\* Longest checklist
MaxItems == 3

\* The checklists of at most MaxItems items
Checklists ==
    UNION {[1..n -> {ChecklistItem(d, c) : d \in Descriptions, c \in BOOLEAN}] :
               n \in 0..MaxItems}

\* ValidationResult { all_completed, completed_count, total_count, incomplete_items }
ValidationResult(all_completed, completed_count, total_count, incomplete_items) ==
    [all_completed |-> all_completed, completed_count |-> completed_count,
     total_count |-> total_count, incomplete_items |-> incomplete_items]

\* Option<ValidationResult>: no validation has run, or its result
NoValidation == << >>
SomeValidation(v) == << v >>

\* iter().map(|item| item.description.clone()).collect()
DescriptionsOf(items) == [i \in 1..Len(items) |-> items[i].description]

\* validate_checklist, with an empty checklist counted as a failure
validate_checklistNonEmpty(spec) ==
    LET total_count == Len(spec.checklist)
        completed_count ==
            Len(SelectSeq(spec.checklist, LAMBDA item : item.completed))
        all_completed == completed_count = total_count /\ total_count > 0
        incomplete_items ==
            DescriptionsOf(SelectSeq(spec.checklist, LAMBDA item : ~item.completed))
    IN  ValidationResult(all_completed, completed_count, total_count, incomplete_items)

\* validate_checklist
validate_checklist(spec) ==
    LET total_count == Len(spec.checklist)
        completed_count ==
            Len(SelectSeq(spec.checklist, LAMBDA item : item.completed))
        all_completed == completed_count = total_count
        incomplete_items ==
            DescriptionsOf(SelectSeq(spec.checklist, LAMBDA item : ~item.completed))
    IN  ValidationResult(all_completed, completed_count, total_count, incomplete_items)

\* A String of the truncator is the sequence of its characters, each of one
\* byte; a literal of the source pushed onto a String is one element of it.
Chars == {"a", "\n"}

\* Longest content handed to the truncator, in characters
MaxContentLen == 5

\* The contents of at most MaxContentLen characters
Contents == UNION {[1..n -> Chars] : n \in 0..MaxContentLen}

\* Largest limit a truncator is constructed with, in tokens
MaxLimit == 2

\* The text returned by a truncator that is already at its limit
AtLimitText == "\n[Output truncated at 5k token limit]"

\* The text pushed after a partially admitted content
TruncationSuffix == "\n\n[Output truncated at 5k token limit]"

\* OutputTruncator::new
OutputTruncator(limit) == [limit |-> limit, accumulated_tokens |-> 0]

\* The record of a truncate_if_needed call
Call(content, text, is_truncated) ==
    [returned |-> TRUE, content |-> content, text |-> text, truncated |-> is_truncated]

\* No truncate_if_needed call has returned
NoCall == [returned |-> FALSE, content |-> << >>, text |-> << >>, truncated |-> FALSE]

\* OutputTruncator::estimate_tokens: text.len().div_ceil(4)
estimate_tokens(text) == DivCeil(Len(text), 4)

\* usize::saturating_sub
SaturatingSub(a, b) == IF a >= b THEN a - b ELSE 0

\* Position of the first line feed of s, 0 if it has none
FirstLineFeed(s) ==
    IF \E i \in 1..Len(s) : s[i] = "\n"
    THEN CHOOSE i \in 1..Len(s) : s[i] = "\n" /\ \A j \in 1..(i - 1) : s[j] # "\n"
    ELSE 0

\* str::lines: the lines of s without their line feeds; a final line feed
\* opens no further line
RECURSIVE Lines(_)
Lines(s) ==
    IF s = << >> THEN << >>
    ELSE LET i == FirstLineFeed(s) IN
         IF i = 0 THEN << s >>
         ELSE << SubSeq(s, 1, i - 1) >> \o Lines(SubSeq(s, i + 1, Len(s)))

\* The loop of truncate_if_needed over content.lines(): whole lines are kept
\* while they fit, each counted with one character for its line feed
RECURSIVE KeepLines(_, _, _, _)
KeepLines(lines, remaining_chars, kept, chars_used) ==
    IF lines = << >> THEN kept
    ELSE LET line == Head(lines)
             line_len == Len(line) + 1
         IN  IF chars_used + line_len > remaining_chars THEN kept
             ELSE KeepLines(Tail(lines), remaining_chars,
                            (IF kept # << >> THEN Append(kept, "\n") ELSE kept) \o line,
                            chars_used + line_len)

\* truncate_if_needed, with the at-limit test made strict
truncate_if_neededStrict(self, content) ==
    LET content_tokens == estimate_tokens(content) IN
    IF self.accumulated_tokens > self.limit
    THEN [self |-> self, text |-> << AtLimitText >>, truncated |-> TRUE]
    ELSE IF self.accumulated_tokens + content_tokens <= self.limit
    THEN [self |-> [self EXCEPT !.accumulated_tokens = @ + content_tokens],
          text |-> content, truncated |-> FALSE]
    ELSE LET remaining_tokens == SaturatingSub(self.limit, self.accumulated_tokens)
             remaining_chars == remaining_tokens * 4
             kept == KeepLines(Lines(content), remaining_chars, << >>, 0)
         IN  [self |-> [self EXCEPT !.accumulated_tokens = self.limit],
              text |-> Append(kept, TruncationSuffix), truncated |-> TRUE]

\* OutputTruncator::truncate_if_needed: the truncator after the call, the
\* String returned and the flag returned
truncate_if_needed(self, content) ==
    LET content_tokens == estimate_tokens(content) IN
    IF self.accumulated_tokens >= self.limit
    THEN [self |-> self, text |-> << AtLimitText >>, truncated |-> TRUE]
    ELSE IF self.accumulated_tokens + content_tokens <= self.limit
    THEN [self |-> [self EXCEPT !.accumulated_tokens = @ + content_tokens],
          text |-> content, truncated |-> FALSE]
    ELSE LET remaining_tokens == SaturatingSub(self.limit, self.accumulated_tokens)
             remaining_chars == remaining_tokens * 4
             kept == KeepLines(Lines(content), remaining_chars, << >>, 0)
         IN  [self |-> [self EXCEPT !.accumulated_tokens = self.limit],
              text |-> Append(kept, TruncationSuffix), truncated |-> TRUE]

\* OutputTruncator::is_at_limit
is_at_limit(self) == self.accumulated_tokens >= self.limit

-----------------------------------------------------------------------------
(* ChildAgentBridge: each method holds the bridge's lock for its one       *)
(* statement, so a call is one step on the ChildAgentBridgeState.          *)

\* set_last_progress
SetLastProgress(state, message) == [state EXCEPT !.last_progress = message]

\* Faulty variant: a final_markdown that is set is kept
SetFinalMarkdownOnce(state, markdown) ==
    IF state.final_markdown = None THEN [state EXCEPT !.final_markdown = markdown] ELSE state

\* set_final_markdown
SetFinalMarkdown(state, markdown) == [state EXCEPT !.final_markdown = markdown]

-----------------------------------------------------------------------------
(* Bridge registry of the conversation manager: a collection of            *)
(* (conversation_id, bridge) entries; a bridge is named by the call that   *)
(* created it.                                                             *)

RegistryHas(reg, c) == \E e \in reg : e.conversation_id = c

\* get_child_agent_bridge
RegistryGet(reg, c) ==
    IF RegistryHas(reg, c)
    THEN (CHOOSE e \in reg : e.conversation_id = c).bridge
    ELSE None

\* register_child_agent_bridge: Err when the conversation id is present
RegistryCanRegister(reg, c) == ~RegistryHas(reg, c)
RegistryInsert(reg, c, b) == reg \cup {[conversation_id |-> c, bridge |-> b]}

\* remove_child_agent_bridge
RegistryRemove(reg, c) == {e \in reg : e.conversation_id # c}

\* Ids new_conversation may hand out for call h: the call's own fresh id, or
\* (the case register_child_agent_bridge rejects) an id that is registered.
NewConversationIds(h) == {FreshId(h)} \cup {e.conversation_id : e \in registry}

-----------------------------------------------------------------------------
(* Statement order *)

IndexOf(order, s) == CHOOSE i \in 1..Len(order) : order[i] = s

After(order, s) ==
    IF IndexOf(order, s) < Len(order) THEN order[IndexOf(order, s) + 1] ELSE "end"

\* Faulty variant: the prompt is submitted before the bridge is registered
HandleOrderSubmitBeforeRegister ==
    << "parse", "child_config", "new_conversation", "submit",
       "register_bridge", "emit_spawned", "register_child", "spawn_monitor", "await" >>

\* Faulty variant: the handler waits for the outcome before it starts the monitor
HandleOrderAwaitBeforeMonitor ==
    << "parse", "child_config", "new_conversation", "register_bridge",
       "emit_spawned", "submit", "register_child", "await", "spawn_monitor" >>

\* Faulty variant: the conversation is created before the child's configuration
HandleOrderConversationBeforeConfig ==
    << "parse", "new_conversation", "child_config", "register_bridge",
       "emit_spawned", "submit", "register_child", "spawn_monitor", "await" >>

\* Faulty variant: the monitor is started before the prompt is submitted
HandleOrderMonitorBeforeSubmit ==
    << "parse", "child_config", "new_conversation", "register_bridge",
       "emit_spawned", "register_child", "spawn_monitor", "submit", "await" >>

\* Faulty variant: the prompt is submitted before AgentSpawned is emitted
HandleOrderSubmitBeforeSpawned ==
    << "parse", "child_config", "new_conversation", "register_bridge",
       "submit", "emit_spawned", "register_child", "spawn_monitor", "await" >>

\* SpawnAgentHandler::handle, in program order
HandleOrder ==
    << "parse", "child_config", "new_conversation", "register_bridge",
       "emit_spawned", "submit", "register_child", "spawn_monitor", "await" >>

\* Faulty variant: the outcome is sent before the summary is injected
TerminalOrderOutcomeBeforeInject ==
    << "emit_completed", "unregister_child", "send_outcome",
       "inject_input", "background_event", "remove_bridge" >>

\* Faulty variant: the child is unregistered after the outcome is sent
TerminalOrderUnregisterAfterOutcome ==
    << "emit_completed", "inject_input", "background_event",
       "send_outcome", "unregister_child", "remove_bridge" >>

\* Faulty variant: the terminal branches leave the removal to the code after the loop
TerminalOrderWithoutRemove ==
    << "emit_completed", "unregister_child", "inject_input",
       "background_event", "send_outcome" >>

\* The statements every terminal branch of the monitor runs, in program order
TerminalOrder ==
    << "emit_completed", "unregister_child", "inject_input",
       "background_event", "send_outcome", "remove_bridge" >>

\* The TaskComplete branch first settles the summary body with the bridge
TaskCompleteOrder == << "read_final", "set_final" >> \o TerminalOrder

BranchOrder(kind) == IF kind = "TaskComplete" THEN TaskCompleteOrder ELSE TerminalOrder

-----------------------------------------------------------------------------
(* Initial state: no call has started *)

\* The session before any call has started, under parent configuration c
InitSession(c) ==
    /\ parentConfig = c
    /\ childConfig = [h \in Calls |-> NoConfig]
    /\ hpc = [h \in Calls |-> HandleOrder[1]]
    /\ herr = [h \in Calls |-> None]
    /\ args = [h \in Calls |-> [task_id |-> None, profile |-> None]]
    /\ conv = [h \in Calls |-> None]
    /\ registry = {}
    /\ bridgeState = [h \in Calls |-> [last_progress |-> None, final_markdown |-> None]]
    /\ sink = [h \in Calls |-> << >>]
    /\ child = [h \in Calls |-> "absent"]
    /\ activeChildren = [t \in TaskIds |-> None]
    /\ injected = [h \in Calls |-> None]
    /\ chan = [h \in Calls |-> [state |-> None, value |-> NoOutcome]]
    /\ result = [h \in Calls |-> NoResult]
    /\ mpc = [h \in Calls |-> None]
    /\ recv = [h \in Calls |-> << >>]
    /\ mfinal = [h \in Calls |-> None]
    /\ rpc = [h \in Calls |-> "idle"]
    /\ rpArgs = [h \in Calls |-> NoProgressArgs]
    /\ rpBridge = [h \in Calls |-> None]
    /\ rpResult = [h \in Calls |-> NoProgressResult]
    /\ rpCount = [h \in Calls |-> 0]
    /\ removals = [h \in Calls |-> 0]
    /\ parentAlive = TRUE
    /\ payload = [h \in Calls |-> NoPayload]
    /\ accumulated_output = [h \in Calls |-> << >>]
    /\ output_token_count = [h \in Calls |-> 0]
    /\ truncated = [h \in Calls |-> FALSE]
    /\ last_message = [h \in Calls |-> NoText]
    /\ progress_buffer = [h \in Calls |-> EmptyBuffer]
    /\ emitAge = [h \in Calls |-> 0]
    /\ flushAge = [h \in Calls |-> 0]
    /\ flushes = [h \in Calls |-> << >>]
    /\ arrived = {}

\* No task is under validation and the truncator has admitted nothing
InitOrchestrator ==
    /\ task = TaskSpec(<< >>)
    /\ validation = NoValidation
    /\ truncator = OutputTruncator(OUTPUT_TOKEN_LIMIT)
    /\ lastCall = NoCall

\* No call has started, under parent configuration c
InitUnder(c) == InitSession(c) /\ InitOrchestrator

Init == InitUnder(DefaultParentConfig)

-----------------------------------------------------------------------------
(* SpawnAgentHandler::handle *)

handlerVars == << hpc, herr, args, conv, result >>
monitorVars == << mpc, recv, mfinal >>
progressVars == << rpc, rpArgs, rpBridge, rpResult, rpCount >>

\* return Err(FunctionCallError::RespondToModel(..)) / the ? operator
ReturnErr(h, e) ==
    /\ hpc' = [hpc EXCEPT ![h] = "returned"]
    /\ herr' = [herr EXCEPT ![h] = e]

Proceed(h, s) == hpc' = [hpc EXCEPT ![h] = After(HandleOrder, s)]

\* payload match and serde_json::from_str, args.profile one of `profiles`
HandleParseOf(h, profiles) ==
    /\ hpc[h] = "parse"
    /\ parentAlive
    /\ \/ /\ \E e \in {"BadInvocation", "BadArguments"} : ReturnErr(h, e)
          /\ UNCHANGED args
       \/ /\ \E t \in TaskIdsOf(h) : \E p \in profiles :
                args' = [args EXCEPT ![h] = [task_id |-> t, profile |-> p]]
          /\ Proceed(h, "parse")
          /\ UNCHANGED herr
    /\ UNCHANGED << conv, result, registry, bridgeState, sink, child, activeChildren,
                    injected, chan, monitorVars, progressVars, removals, parentAlive, configVars, orchestratorVars, arrived, payload, budgetVars, throttleVars >>

\* A call that names no profile
HandleParse(h) == HandleParseOf(h, {None})

\* Faulty variant: the parent's default profile goes before the argument
SelectedProfileDefaultFirst(profile, parent_config) ==
    IF Len(parent_config.active_agent_profiles) > 0
    THEN parent_config.active_agent_profiles[1]
    ELSE profile

\* selected_profile
SelectedProfile(profile, parent_config) ==
    IF profile # None THEN profile
    ELSE IF Len(parent_config.active_agent_profiles) > 0
    THEN parent_config.active_agent_profiles[1]
    ELSE None

\* CoreConfig::load_from_base_config_with_overrides with config_profile and
\* model_reasoning_effort: Some(Low): the file's configuration under the
\* profile, the effort forced
LoadFromBaseConfigWithOverrides(profile_name, effort) ==
    Config(profile_name, << >>, effort)

\* (*session.services.config).clone() with model_reasoning_effort set
CloneWithEffort(config, effort) == [config EXCEPT !.model_reasoning_effort = effort]

\* child_config: load config.toml and apply the selected profile, or clone
\* the parent's
HandleChildConfig(h) ==
    /\ hpc[h] = "child_config"
    /\ LET selected_profile == SelectedProfile(args[h].profile, parentConfig) IN
       IF selected_profile # None
       THEN \/ /\ \E e \in {"ConfigLoadFailed", "ConfigBuildFailed"} : ReturnErr(h, e)
               /\ UNCHANGED childConfig
            \/ /\ childConfig' = [childConfig EXCEPT ![h] =
                                     LoadFromBaseConfigWithOverrides(selected_profile, "low")]
               /\ Proceed(h, "child_config")
               /\ UNCHANGED herr
       ELSE /\ childConfig' = [childConfig EXCEPT ![h] = CloneWithEffort(parentConfig, "low")]
            /\ Proceed(h, "child_config")
            /\ UNCHANGED herr
    /\ UNCHANGED << args, conv, result, registry, bridgeState, sink, child, activeChildren,
                    injected, chan, monitorVars, progressVars, removals, parentAlive, parentConfig, orchestratorVars, arrived, payload, budgetVars, throttleVars >>

\* conversation_manager.new_conversation(child_config)
HandleNewConversation(h) ==
    /\ hpc[h] = "new_conversation"
    /\ \/ /\ ReturnErr(h, "ConversationCreateFailed")
          /\ UNCHANGED << conv, child >>
       \/ /\ \E c \in NewConversationIds(h) : conv' = [conv EXCEPT ![h] = c]
          /\ child' = [child EXCEPT ![h] = "created"]
          /\ Proceed(h, "new_conversation")
          /\ UNCHANGED herr
    /\ UNCHANGED << args, result, registry, bridgeState, sink, activeChildren,
                    injected, chan, monitorVars, progressVars, removals, parentAlive, configVars, orchestratorVars, arrived, payload, budgetVars, throttleVars >>

\* Faulty variant: the Err of register_child_agent_bridge is dropped (let _ = ..)
HandleRegisterBridgeIgnoringErr(h) ==
    /\ hpc[h] = "register_bridge"
    /\ registry' = IF RegistryCanRegister(registry, conv[h])
                   THEN RegistryInsert(registry, conv[h], h) ELSE registry
    /\ Proceed(h, "register_bridge")
    /\ UNCHANGED << herr, args, conv, result, bridgeState, sink, child, activeChildren,
                    injected, chan, monitorVars, progressVars, removals, parentAlive, configVars, orchestratorVars, arrived, payload, budgetVars, throttleVars >>

\* ChildAgentBridge::new and register_child_agent_bridge(bridge.clone())
HandleRegisterBridge(h) ==
    /\ hpc[h] = "register_bridge"
    /\ IF RegistryCanRegister(registry, conv[h])
       THEN /\ registry' = RegistryInsert(registry, conv[h], h)
            /\ Proceed(h, "register_bridge")
            /\ UNCHANGED herr
       ELSE /\ ReturnErr(h, "RegistryInsertFailed")
            /\ UNCHANGED registry
    /\ UNCHANGED << args, conv, result, bridgeState, sink, child, activeChildren,
                    injected, chan, monitorVars, progressVars, removals, parentAlive, configVars, orchestratorVars, arrived, payload, budgetVars, throttleVars >>

\* session.send_event(AgentSpawned)
HandleEmitSpawned(h) ==
    /\ hpc[h] = "emit_spawned"
    /\ sink' = [sink EXCEPT ![h] = Append(@, AgentSpawned(h))]
    /\ Proceed(h, "emit_spawned")
    /\ UNCHANGED << herr, args, conv, result, registry, bridgeState, child, activeChildren,
                    injected, chan, monitorVars, progressVars, removals, parentAlive, configVars, orchestratorVars, arrived, payload, budgetVars, throttleVars >>

\* child.conversation.submit(Op::UserInput): the child starts its first response
HandleSubmit(h) ==
    /\ hpc[h] = "submit"
    /\ \/ /\ ReturnErr(h, "PromptSubmitFailed")
          /\ UNCHANGED child
       \/ /\ child' = [child EXCEPT ![h] = "running"]
          /\ Proceed(h, "submit")
          /\ UNCHANGED herr
    /\ UNCHANGED << args, conv, result, registry, bridgeState, sink, activeChildren,
                    injected, chan, monitorVars, progressVars, removals, parentAlive, configVars, orchestratorVars, arrived, payload, budgetVars, throttleVars >>

\* session.register_child_agent(task_id, conversation)
HandleRegisterChild(h) ==
    /\ hpc[h] = "register_child"
    /\ activeChildren' = [activeChildren EXCEPT ![args[h].task_id] = conv[h]]
    /\ Proceed(h, "register_child")
    /\ UNCHANGED << herr, args, conv, result, registry, bridgeState, sink, child,
                    injected, chan, monitorVars, progressVars, removals, parentAlive, configVars, orchestratorVars, arrived, payload, budgetVars, throttleVars >>

\* oneshot::channel() and tokio::spawn of the monitor
HandleSpawnMonitor(h) ==
    /\ hpc[h] = "spawn_monitor"
    /\ chan' = [chan EXCEPT ![h] = [state |-> "open", value |-> NoOutcome]]
    /\ mpc' = [mpc EXCEPT ![h] = "next_event"]
    /\ Proceed(h, "spawn_monitor")
    /\ UNCHANGED << herr, args, conv, result, registry, bridgeState, sink, child,
                    activeChildren, injected, recv, mfinal, progressVars, removals,
                    parentAlive, configVars, orchestratorVars, arrived, payload, budgetVars, throttleVars >>

\* The function result built from a received outcome
OutcomeResult(task_id, o) ==
    [content |-> "outcome",
     agent_id |-> task_id,
     status |-> IF o.success THEN "completed" ELSE "failed",
     success |-> o.success,
     markdown |-> o.markdown,
     injected_into_turn |-> o.injected_into_turn]

\* Faulty variant: the closed channel is reported as a success
ClosedResultSucceeds(task_id) ==
    [content |-> "did not report a result", agent_id |-> task_id, status |-> None,
     success |-> TRUE, markdown |-> NoMarkdown, injected_into_turn |-> FALSE]

\* The function result when the sender was dropped without a value
ClosedResult(task_id) ==
    [content |-> "did not report a result", agent_id |-> task_id, status |-> None,
     success |-> FALSE, markdown |-> NoMarkdown, injected_into_turn |-> FALSE]

\* match outcome_rx.await
HandleAwait(h) ==
    /\ hpc[h] = "await"
    /\ chan[h].state \in {"sent", "closed"}
    /\ result' = [result EXCEPT ![h] =
                    IF chan[h].state = "sent"
                    THEN OutcomeResult(args[h].task_id, chan[h].value)
                    ELSE ClosedResult(args[h].task_id)]
    /\ hpc' = [hpc EXCEPT ![h] = "returned"]
    /\ UNCHANGED << herr, args, conv, registry, bridgeState, sink, child, activeChildren,
                    injected, chan, monitorVars, progressVars, removals, parentAlive, configVars, orchestratorVars, arrived, payload, budgetVars, throttleVars >>

\* The future of handle is dropped while it waits for the outcome (the
\* parent's turn is cancelled): outcome_rx is dropped with it
HandleDropped(h) ==
    /\ hpc[h] = "await"
    /\ chan[h].state = "open"
    /\ hpc' = [hpc EXCEPT ![h] = "dropped"]
    /\ chan' = [chan EXCEPT ![h].state = "rx_dropped"]
    /\ UNCHANGED << herr, args, conv, result, registry, bridgeState, sink, child, activeChildren,
                    injected, monitorVars, progressVars, removals, parentAlive, configVars, orchestratorVars, arrived, payload, budgetVars, throttleVars >>

\* handle after its arguments are parsed
HandleSteps(h) ==
    \/ HandleChildConfig(h)
    \/ HandleNewConversation(h)
    \/ HandleRegisterBridge(h)
    \/ HandleEmitSpawned(h)
    \/ HandleSubmit(h)
    \/ HandleRegisterChild(h)
    \/ HandleSpawnMonitor(h)
    \/ HandleAwait(h)

Handle(h) ==
    \/ HandleParse(h)
    \/ HandleSteps(h)

-----------------------------------------------------------------------------
(* The monitor task (tokio::spawn in SpawnAgentHandler::handle) *)

LastEvent(h) == recv[h][Len(recv[h])]

NonTerminalCount(h) == Len(SelectSeq(recv[h], LAMBDA k : k \in NonTerminalKinds))

\* A branch statement that does not run: set_final_markdown when the bridge
\* carried a final_markdown, the BackgroundEvent when the injection succeeded.
Skipped(s, fin, inj) ==
    \/ s = "set_final" /\ fin # None
    \/ s = "background_event" /\ inj # "failed"

\* Faulty variant: a terminal branch falls back into the loop
AfterBreakContinue == "next_event"

\* `break` at the end of a terminal branch: on to the remove after the loop
AfterBreak == "exit_remove"

\* The monitor position after statement s of the branch for `kind`
AfterBranch(kind, s, fin, inj) ==
    LET n1 == After(BranchOrder(kind), s)
        n2 == IF n1 # "end" /\ Skipped(n1, fin, inj) THEN After(BranchOrder(kind), n1) ELSE n1
    IN IF n2 = "end" THEN AfterBreak ELSE n2

BranchEntry(kind) == BranchOrder(kind)[1]

MonitorGoto(h, s) == mpc' = [mpc EXCEPT ![h] = s]

MonitorNext(h, s) ==
    MonitorGoto(h, AfterBranch(LastEvent(h), s, mfinal[h], injected[h]))

\* The event stream of the child's conversation is open: it stays open when
\* a task of the child has ended, and delivers what the child produces next
StreamOpen(h) == child[h] \in {"running", "ended"}

\* child_conversation_for_ui.next_event().await, the child producing an
\* event of one of `kinds` carrying one of `texts`, or ending its stream
MonitorNextEventOf(h, kinds, texts) ==
    /\ mpc[h] = "next_event"
    /\ StreamOpen(h)
    /\ \/ /\ \E k \in kinds : \E p \in Payloads(h, k, texts) :
                /\ recv' = [recv EXCEPT ![h] = Append(@, k)]
                /\ payload' = [payload EXCEPT ![h] = p]
                /\ child' = [child EXCEPT ![h] = IF k \in TerminalKinds THEN "ended" ELSE @]
          /\ MonitorGoto(h, "forward")
       \/ /\ child' = [child EXCEPT ![h] = "closed"]     \* Err(_) => break
          /\ MonitorGoto(h, "exit_remove")
          /\ UNCHANGED << recv, payload >>
    /\ UNCHANGED << handlerVars, registry, bridgeState, sink, activeChildren, injected,
                    chan, mfinal, progressVars, removals, parentAlive, configVars, orchestratorVars, arrived, budgetVars, throttleVars >>

\* A child that reports no text: at most MaxEvents events, then the end
MonitorNextEvent(h) ==
    MonitorNextEventOf(h, (IF NonTerminalCount(h) < MaxEvents THEN NonTerminalKinds ELSE {})
                              \cup TerminalKinds, {})

\* Where `match event.msg` leads once the wrapped event has been sent
MatchTarget(kind) ==
    IF kind \in TerminalKinds THEN BranchEntry(kind)
    ELSE IF kind = "TaskStarted" THEN "emit_progress"
    ELSE IF kind = "AgentMessageDelta" THEN "delta"
    ELSE IF kind = "AgentMessage" THEN "message"
    ELSE "next_event"

\* Faulty variant: only the events the monitor handles are forwarded
MonitorForwardHandledOnly(h) ==
    /\ mpc[h] = "forward"
    /\ sink' = [sink EXCEPT ![h] =
                  IF MatchTarget(LastEvent(h)) = "next_event" THEN @
                  ELSE Append(@, AgentEvent(h, LastEvent(h)))]
    /\ MonitorGoto(h, MatchTarget(LastEvent(h)))
    /\ UNCHANGED << handlerVars, registry, bridgeState, child, activeChildren, injected,
                    chan, recv, mfinal, progressVars, removals, parentAlive, configVars, orchestratorVars, arrived, payload, budgetVars, throttleVars >>

\* send_event(AgentEvent { agent_id, event }) and the match on event.msg
MonitorForward(h) ==
    /\ mpc[h] = "forward"
    /\ sink' = [sink EXCEPT ![h] = Append(@, AgentEvent(h, LastEvent(h)))]
    /\ MonitorGoto(h, MatchTarget(LastEvent(h)))
    /\ UNCHANGED << handlerVars, registry, bridgeState, child, activeChildren, injected,
                    chan, recv, mfinal, progressVars, removals, parentAlive, configVars, orchestratorVars, arrived, payload, budgetVars, throttleVars >>

\* emit_progress("started")
MonitorEmitProgress(h) ==
    /\ mpc[h] = "emit_progress"
    /\ sink' = [sink EXCEPT ![h] = Append(@, AgentProgress(args[h].task_id, "started"))]
    /\ MonitorGoto(h, "next_event")
    /\ UNCHANGED << handlerVars, registry, bridgeState, child, activeChildren, injected,
                    chan, recv, mfinal, progressVars, removals, parentAlive, configVars, orchestratorVars, arrived, payload, budgetVars, throttleVars >>

\* A child that streams text: at most MaxMessages deltas and messages
TextCount(h) == Len(SelectSeq(recv[h], LAMBDA k : k \in TextKinds))

DeltaCount(h) == Len(SelectSeq(recv[h], LAMBDA k : k = "AgentMessageDelta"))

\* Its stream ends by closing
MonitorNextTextEvent(h) ==
    MonitorNextEventOf(h, IF TextCount(h) < MaxMessages THEN TextKinds ELSE {}, BudgetTexts)

\* accumulated_output, output_token_count and truncated
Budget(h) ==
    [out |-> accumulated_output[h], tokens |-> output_token_count[h],
     truncated |-> truncated[h]]

SetBudget(h, b) ==
    /\ accumulated_output' = [accumulated_output EXCEPT ![h] = b.out]
    /\ output_token_count' = [output_token_count EXCEPT ![h] = b.tokens]
    /\ truncated' = [truncated EXCEPT ![h] = b.truncated]

\* OUTPUT_TOKEN_LIMIT.saturating_sub(output_token_count)
RemainingTokens(b) ==
    IF b.tokens <= OUTPUT_TOKEN_LIMIT THEN OUTPUT_TOKEN_LIMIT - b.tokens ELSE 0

\* Faulty variant: the truncation leaves output_token_count as it was
AdmitDeltaKeepingCount(b, t) ==
    IF b.truncated THEN b
    ELSE IF b.tokens + DivCeil(Bytes(t), 4) <= OUTPUT_TOKEN_LIMIT
    THEN [b EXCEPT !.out = PushStr(@, t), !.tokens = @ + DivCeil(Bytes(t), 4)]
    ELSE [b EXCEPT !.out = PushStr(PushStr(@, TakeChars(t, RemainingTokens(b) * 4)), Marker),
                   !.truncated = TRUE]

\* Faulty variant: a delta that fills the budget exactly is truncated
AdmitDeltaStrict(b, t) ==
    IF b.truncated THEN b
    ELSE LET delta_tokens == DivCeil(Bytes(t), 4) IN
         IF b.tokens + delta_tokens < OUTPUT_TOKEN_LIMIT
         THEN [b EXCEPT !.out = PushStr(@, t), !.tokens = @ + delta_tokens]
         ELSE LET remaining_chars == RemainingTokens(b) * 4
                  kept == IF remaining_chars > 0
                          THEN PushStr(b.out, TakeChars(t, remaining_chars))
                          ELSE b.out
              IN [out |-> PushStr(kept, Marker), tokens |-> OUTPUT_TOKEN_LIMIT,
                  truncated |-> TRUE]

\* The AgentMessageDelta branch's update of the output budget
AdmitDelta(b, t) ==
    IF b.truncated THEN b
    ELSE LET delta_tokens == DivCeil(Bytes(t), 4) IN
         IF b.tokens + delta_tokens <= OUTPUT_TOKEN_LIMIT
         THEN [b EXCEPT !.out = PushStr(@, t), !.tokens = @ + delta_tokens]
         ELSE LET remaining_chars == RemainingTokens(b) * 4
                  kept == IF remaining_chars > 0
                          THEN PushStr(b.out, TakeChars(t, remaining_chars))
                          ELSE b.out
              IN [out |-> PushStr(kept, Marker), tokens |-> OUTPUT_TOKEN_LIMIT,
                  truncated |-> TRUE]

\* Faulty variant: without the `if !truncated` around the branch
AdmitMessageUnguarded(b, t) ==
    IF b.tokens + DivCeil(Bytes(t), 4) <= OUTPUT_TOKEN_LIMIT
    THEN [b EXCEPT !.out = PushStr(PushStr(@, t), LineBreak), !.tokens = @ + DivCeil(Bytes(t), 4)]
    ELSE [out |-> PushStr(b.out, Marker), tokens |-> OUTPUT_TOKEN_LIMIT, truncated |-> TRUE]

\* The AgentMessage branch's update of the output budget
AdmitMessage(b, t) ==
    IF b.truncated THEN b
    ELSE LET msg_tokens == DivCeil(Bytes(t), 4) IN
         IF b.tokens + msg_tokens <= OUTPUT_TOKEN_LIMIT
         THEN [b EXCEPT !.out = PushStr(PushStr(@, t), LineBreak), !.tokens = @ + msg_tokens]
         ELSE [out |-> PushStr(b.out, Marker), tokens |-> OUTPUT_TOKEN_LIMIT,
               truncated |-> TRUE]

\* Faulty variant: every delta is flushed
ShouldFlushAlways(b, age) == TRUE

\* should_flush
ShouldFlush(b, age) ==
    b.newline \/ b.bytes > FlushBytes \/ age >= ProgressIntervalMs

\* snippet: the last 400 chars of a buffer longer than 400
SnippetOf(b) == IF b.bytes > SnippetChars THEN Min(b.chars, SnippetChars) ELSE b.chars

\* AgentMessageDelta: the budget, progress_buffer.push_str and should_flush
MonitorDelta(h) ==
    /\ mpc[h] = "delta"
    /\ SetBudget(h, AdmitDelta(Budget(h), payload[h].text))
    /\ progress_buffer' = [progress_buffer EXCEPT ![h] = BufferPush(@, payload[h].text)]
    /\ MonitorGoto(h, IF ShouldFlush(BufferPush(progress_buffer[h], payload[h].text), emitAge[h])
                      THEN "flush" ELSE "next_event")
    /\ UNCHANGED << handlerVars, registry, bridgeState, sink, child, activeChildren, injected,
                    chan, recv, mfinal, progressVars, removals, parentAlive, configVars, orchestratorVars, arrived, payload,
                    last_message, emitAge, flushAge, flushes >>

\* emit_progress(snippet): the AgentProgress reaches the parent
MonitorFlush(h) ==
    /\ mpc[h] = "flush"
    /\ sink' = [sink EXCEPT ![h] = Append(@, AgentProgress(args[h].task_id, "snippet"))]
    /\ flushes' = [flushes EXCEPT ![h] =
                     Append(@, [delta |-> DeltaCount(h), gap |-> flushAge[h],
                                newline |-> progress_buffer[h].newline,
                                bytes |-> progress_buffer[h].bytes,
                                chars |-> SnippetOf(progress_buffer[h])])]
    /\ flushAge' = [flushAge EXCEPT ![h] = 0]
    /\ MonitorGoto(h, "flush_done")
    /\ UNCHANGED << handlerVars, registry, bridgeState, child, activeChildren, injected,
                    chan, recv, mfinal, progressVars, removals, parentAlive, configVars, orchestratorVars, arrived, payload,
                    budgetVars, progress_buffer, emitAge >>

\* progress_buffer.clear(); last_progress_emit = Instant::now()
MonitorFlushDone(h) ==
    /\ mpc[h] = "flush_done"
    /\ progress_buffer' = [progress_buffer EXCEPT ![h] = EmptyBuffer]
    /\ emitAge' = [emitAge EXCEPT ![h] = 0]
    /\ MonitorGoto(h, "next_event")
    /\ UNCHANGED << handlerVars, registry, bridgeState, sink, child, activeChildren, injected,
                    chan, recv, mfinal, progressVars, removals, parentAlive, configVars, orchestratorVars, arrived, payload,
                    budgetVars, flushAge, flushes >>

\* AgentMessage: the budget, last_message and emit_progress(msg.message)
MonitorMessage(h) ==
    /\ mpc[h] = "message"
    /\ SetBudget(h, AdmitMessage(Budget(h), payload[h].text))
    /\ last_message' = [last_message EXCEPT ![h] = payload[h].text]
    /\ sink' = [sink EXCEPT ![h] = Append(@, AgentProgress(args[h].task_id, payload[h].text.id))]
    /\ MonitorGoto(h, "next_event")
    /\ UNCHANGED << handlerVars, registry, bridgeState, child, activeChildren, injected,
                    chan, recv, mfinal, progressVars, removals, parentAlive, configVars, orchestratorVars, arrived, payload,
                    throttleVars >>

MonitorText(h) ==
    \/ MonitorDelta(h)
    \/ MonitorFlush(h)
    \/ MonitorFlushDone(h)
    \/ MonitorMessage(h)

\* Time passes for the running monitors (Instant::now() advances)
Tick ==
    /\ \E h \in Calls : /\ mpc[h] \notin {None, "done"}
                         /\ (emitAge[h] < ProgressIntervalMs \/ flushAge[h] < ProgressIntervalMs)
    /\ emitAge' = [h \in Calls |-> IF mpc[h] \in {None, "done"} THEN emitAge[h]
                                    ELSE Min(emitAge[h] + TickMs, ProgressIntervalMs)]
    /\ flushAge' = [h \in Calls |-> IF mpc[h] \in {None, "done"} THEN flushAge[h]
                                     ELSE Min(flushAge[h] + TickMs, ProgressIntervalMs)]
    /\ UNCHANGED << handlerVars, registry, bridgeState, sink, child, activeChildren, injected,
                    chan, monitorVars, progressVars, removals, parentAlive, configVars, orchestratorVars, arrived, payload,
                    budgetVars, progress_buffer, flushes >>

\* bridge_for_monitor.final_markdown().await
MonitorReadFinal(h) ==
    /\ mpc[h] = "read_final"
    /\ mfinal' = [mfinal EXCEPT ![h] = bridgeState[h].final_markdown]
    /\ MonitorGoto(h, AfterBranch(LastEvent(h), "read_final",
                                  bridgeState[h].final_markdown, injected[h]))
    /\ UNCHANGED << handlerVars, registry, bridgeState, sink, child, activeChildren,
                    injected, chan, recv, progressVars, removals, parentAlive, configVars, orchestratorVars, arrived, payload, budgetVars, throttleVars >>

\* Faulty variant: the TaskComplete's message is preferred to the accumulated output
FallbackBodyMessageFirst(h) ==
    IF payload[h].text.id # None THEN payload[h].text.id
    ELSE IF accumulated_output[h] # << >> THEN "accumulated_output"
    ELSE IF last_message[h].id # None THEN last_message[h].id
    ELSE "Child agent completed without returning a message."

\* fallback_message: the accumulated output if there is any, else the
\* TaskComplete's last_agent_message, else the last AgentMessage, else the
\* fixed text
FallbackBody(h) ==
    IF accumulated_output[h] # << >> THEN "accumulated_output"
    ELSE IF payload[h].text.id # None THEN payload[h].text.id
    ELSE IF last_message[h].id # None THEN last_message[h].id
    ELSE "Child agent completed without returning a message."

\* Faulty variant: the body is the fallback whatever the bridge holds
SummaryBodyFallbackOnly(h) == FallbackBody(h)

\* summary_body
SummaryBody(h) == IF mfinal[h] # None THEN mfinal[h] ELSE FallbackBody(h)

\* Faulty variant: the heading reports the truncation whatever the bridge held
SummaryHeadingIgnoringFinal(h) ==
    IF truncated[h] THEN "ok (output truncated to 5k tokens)" ELSE "ok"

\* summary_heading, without the agent id
SummaryHeading(h) ==
    IF truncated[h] /\ mfinal[h] = None
    THEN "ok (output truncated to 5k tokens)" ELSE "ok"

\* bridge_for_monitor.set_final_markdown(summary_body.clone()).await
MonitorSetFinal(h) ==
    /\ mpc[h] = "set_final"
    /\ bridgeState' = [bridgeState EXCEPT ![h] = SetFinalMarkdown(@, SummaryBody(h))]
    /\ MonitorNext(h, "set_final")
    /\ UNCHANGED << handlerVars, registry, sink, child, activeChildren, injected,
                    chan, recv, mfinal, progressVars, removals, parentAlive, configVars, orchestratorVars, arrived, payload, budgetVars, throttleVars >>

\* Faulty variant: every branch reports success
BranchSuccessAlways(kind) == TRUE

\* success of the AgentCompleted event and of the outcome
BranchSuccess(kind) == kind = "TaskComplete"

\* Faulty variant: every abort is reported as an interruption
ReasonTextInterrupted(reason) == "interrupted by user"

\* reason_text
ReasonText(reason) ==
    CASE reason = "Interrupted" -> "interrupted by user"
      [] reason = "Replaced" -> "replaced by another task"
      [] reason = "ReviewEnded" -> "review ended"

\* The body of abort_message, below its heading
AbortBody(reason_text) == "The subagent was " \o reason_text \o "."

\* summary / error_message / abort_message
BranchMarkdown(h) ==
    CASE LastEvent(h) = "TaskComplete" -> Markdown(SummaryHeading(h), SummaryBody(h))
      [] LastEvent(h) = "Error" -> Markdown("failed", "err.message")
      [] OTHER -> Markdown("aborted", AbortBody(ReasonText(payload[h].reason)))

\* What the BackgroundEvent of a branch reports behind its fixed opening:
\* summary_body, err.message, reason_text
BackgroundText(h) ==
    CASE LastEvent(h) = "TaskComplete" -> SummaryBody(h)
      [] LastEvent(h) = "Error" -> "err.message"
      [] OTHER -> ReasonText(payload[h].reason)

\* send_event(AgentCompleted { agent_id, success, summary })
MonitorEmitCompleted(h) ==
    /\ mpc[h] = "emit_completed"
    /\ sink' = [sink EXCEPT ![h] =
                  Append(@, AgentCompleted(h, BranchSuccess(LastEvent(h)), BranchMarkdown(h)))]
    /\ MonitorNext(h, "emit_completed")
    /\ UNCHANGED << handlerVars, registry, bridgeState, child, activeChildren, injected,
                    chan, recv, mfinal, progressVars, removals, parentAlive, configVars, orchestratorVars, arrived, payload, budgetVars, throttleVars >>

\* parent_session_for_ui.unregister_child_agent(&agent_id_for_ui)
MonitorUnregisterChild(h) ==
    /\ mpc[h] = "unregister_child"
    /\ activeChildren' = [activeChildren EXCEPT ![args[h].task_id] = None]
    /\ MonitorNext(h, "unregister_child")
    /\ UNCHANGED << handlerVars, registry, bridgeState, sink, child, injected,
                    chan, recv, mfinal, progressVars, removals, parentAlive, configVars, orchestratorVars, arrived, payload, budgetVars, throttleVars >>

\* parent_session_for_ui.inject_input(..).await.is_ok()
MonitorInjectInput(h) ==
    /\ mpc[h] = "inject_input"
    /\ \E ok \in {"ok", "failed"} :
        /\ injected' = [injected EXCEPT ![h] = ok]
        /\ MonitorGoto(h, AfterBranch(LastEvent(h), "inject_input", mfinal[h], ok))
    /\ UNCHANGED << handlerVars, registry, bridgeState, sink, child, activeChildren,
                    chan, recv, mfinal, progressVars, removals, parentAlive, configVars, orchestratorVars, arrived, payload, budgetVars, throttleVars >>

\* if !injected { send_event(BackgroundEvent) }
MonitorBackgroundEvent(h) ==
    /\ mpc[h] = "background_event"
    /\ sink' = [sink EXCEPT ![h] = Append(@, BackgroundEvent(h, BackgroundText(h)))]
    /\ MonitorNext(h, "background_event")
    /\ UNCHANGED << handlerVars, registry, bridgeState, child, activeChildren, injected,
                    chan, recv, mfinal, progressVars, removals, parentAlive, configVars, orchestratorVars, arrived, payload, budgetVars, throttleVars >>

\* Faulty variant: the outcome reports the injection as done
BranchOutcomeInjectedAlways(h) ==
    [success |-> BranchSuccess(LastEvent(h)),
     markdown |-> BranchMarkdown(h),
     injected_into_turn |-> TRUE]

\* The SubagentOutcome a branch sends
BranchOutcome(h) ==
    [success |-> BranchSuccess(LastEvent(h)),
     markdown |-> BranchMarkdown(h),
     injected_into_turn |-> injected[h] = "ok"]

\* Faulty variant: a send that fails ends the monitor (send(..).unwrap())
MonitorSendOutcomeOrStop(h) ==
    /\ mpc[h] = "send_outcome"
    /\ chan' = [chan EXCEPT ![h] =
                  IF @.state = "open" THEN [state |-> "sent", value |-> BranchOutcome(h)] ELSE @]
    /\ IF chan[h].state = "open" THEN MonitorNext(h, "send_outcome") ELSE MonitorGoto(h, "done")
    /\ UNCHANGED << handlerVars, registry, bridgeState, sink, child, activeChildren,
                    injected, recv, mfinal, progressVars, removals, parentAlive, configVars, orchestratorVars, arrived, payload, budgetVars, throttleVars >>

\* let _ = outcome_tx.send(SubagentOutcome { .. })
MonitorSendOutcome(h) ==
    /\ mpc[h] = "send_outcome"
    /\ chan' = [chan EXCEPT ![h] =
                  IF @.state = "open" THEN [state |-> "sent", value |-> BranchOutcome(h)] ELSE @]
    /\ MonitorNext(h, "send_outcome")
    /\ UNCHANGED << handlerVars, registry, bridgeState, sink, child, activeChildren,
                    injected, recv, mfinal, progressVars, removals, parentAlive, configVars, orchestratorVars, arrived, payload, budgetVars, throttleVars >>

\* The registry holds the bridge of call b
HasRegistered(b) == \E e \in registry : e.bridge = b

\* Faulty variant: the remove clears the registry
RemoveBridgeOfAll(h) ==
    /\ registry' = {}
    /\ removals' = [b \in Calls |-> IF HasRegistered(b) THEN removals[b] + 1 ELSE removals[b]]

\* remove_child_agent_bridge(&child_conversation_id_for_monitor)
RemoveBridge(h) ==
    /\ registry' = RegistryRemove(registry, conv[h])
    /\ removals' = [b \in Calls |->
                      IF [conversation_id |-> conv[h], bridge |-> b] \in registry
                      THEN removals[b] + 1 ELSE removals[b]]

\* the remove at the end of a terminal branch, then break
MonitorRemoveBridge(h) ==
    /\ mpc[h] = "remove_bridge"
    /\ RemoveBridge(h)
    /\ MonitorNext(h, "remove_bridge")
    /\ UNCHANGED << handlerVars, bridgeState, sink, child, activeChildren, injected,
                    chan, recv, mfinal, progressVars, parentAlive, configVars, orchestratorVars, arrived, payload, budgetVars, throttleVars >>

\* Faulty variant: the sender outlives the monitor
DropSenderLeaked(c) == c

\* The monitor's future ends: outcome_tx, if still owned, is dropped
DropSender(c) == IF c.state = "open" THEN [c EXCEPT !.state = "closed"] ELSE c

\* Faulty variant: no remove after the loop
MonitorExitWithoutRemove(h) ==
    /\ mpc[h] = "exit_remove"
    /\ chan' = [chan EXCEPT ![h] = DropSender(@)]
    /\ MonitorGoto(h, "done")
    /\ UNCHANGED << handlerVars, registry, removals, bridgeState, sink, child,
                    activeChildren, injected, recv, mfinal, progressVars, parentAlive, configVars, orchestratorVars, arrived, payload, budgetVars, throttleVars >>

\* Faulty variant: the exit after a closed stream unregisters the child
MonitorExitUnregisters(h) ==
    /\ mpc[h] = "exit_remove"
    /\ RemoveBridge(h)
    /\ activeChildren' = [activeChildren EXCEPT ![args[h].task_id] = None]
    /\ chan' = [chan EXCEPT ![h] = DropSender(@)]
    /\ MonitorGoto(h, "done")
    /\ UNCHANGED << handlerVars, bridgeState, sink, child, injected,
                    recv, mfinal, progressVars, parentAlive, configVars, orchestratorVars, arrived, payload, budgetVars, throttleVars >>

\* the remove after the loop; the task ends
MonitorExit(h) ==
    /\ mpc[h] = "exit_remove"
    /\ RemoveBridge(h)
    /\ chan' = [chan EXCEPT ![h] = DropSender(@)]
    /\ MonitorGoto(h, "done")
    /\ UNCHANGED << handlerVars, bridgeState, sink, child, activeChildren, injected,
                    recv, mfinal, progressVars, parentAlive, configVars, orchestratorVars, arrived, payload, budgetVars, throttleVars >>

\* The steps that follow the receipt of an event
MonitorSteps(h) ==
    \/ MonitorForward(h)
    \/ MonitorReadFinal(h)
    \/ MonitorSetFinal(h)
    \/ MonitorEmitCompleted(h)
    \/ MonitorUnregisterChild(h)
    \/ MonitorInjectInput(h)
    \/ MonitorBackgroundEvent(h)
    \/ MonitorSendOutcome(h)
    \/ MonitorRemoveBridge(h)
    \/ MonitorExit(h)

Monitor(h) ==
    \/ MonitorNextEvent(h)
    \/ MonitorEmitProgress(h)
    \/ MonitorSteps(h)

-----------------------------------------------------------------------------
(* ReturnProgressHandler::handle, called by the child of call h *)

\* Faulty variant: the bridge's weak reference never upgrades
ParentSessionNeverResolves(b) == None

\* bridge.parent_session(): Weak::upgrade
ParentSession(b) == IF parentAlive THEN "session" ELSE None

ProgressReturn(h, r) ==
    /\ rpResult' = [rpResult EXCEPT ![h] = r]
    /\ rpc' = [rpc EXCEPT ![h] = "idle"]

\* Faulty variant: the parent is resolved before the task_id is compared
ProgressPreconditionParentFirst(a, b) ==
    IF ParentSession(b) = None THEN "ParentGone"
    ELSE IF a.task_id # None /\ a.task_id # args[b].task_id THEN "WrongAgent"
    ELSE None

\* The outcome of the task_id check and of bridge.parent_session() for a
\* call with arguments a that found bridge b: the error returned, or None
ProgressPrecondition(a, b) ==
    IF a.task_id # None /\ a.task_id # args[b].task_id THEN "WrongAgent"
    ELSE IF ParentSession(b) = None THEN "ParentGone"
    ELSE None

\* A task of the child's conversation runs: its first, or the task that
\* replaced it when `late` callers are admitted (TurnAbortReason::Replaced)
ChildRuns(h, late) ==
    \/ child[h] = "running"
    \/ /\ late
       /\ child[h] = "ended" /\ LastEvent(h) = "TurnAborted" /\ payload[h].reason = "Replaced"

\* get_child_agent_bridge(&session.conversation_id()).await, for a call
\* whose progress text is one of `texts`
ReturnProgressLookupBy(h, late, texts) ==
    /\ rpc[h] = "idle"
    /\ ChildRuns(h, late)
    /\ rpCount[h] < MaxProgressCalls
    /\ rpCount' = [rpCount EXCEPT ![h] = @ + 1]
    /\ \E a \in ProgressArgsOf(texts) :
         LET b == RegistryGet(registry, conv[h]) IN
         IF b = None
         THEN ProgressReturn(h, ProgressErr("NotASubagent")) /\ UNCHANGED << rpArgs, rpBridge >>
         ELSE /\ rpArgs' = [rpArgs EXCEPT ![h] = a]
              /\ rpBridge' = [rpBridge EXCEPT ![h] = b]
              /\ rpc' = [rpc EXCEPT ![h] = "check"]
              /\ UNCHANGED rpResult
    /\ UNCHANGED << handlerVars, registry, bridgeState, sink, child, activeChildren,
                    injected, chan, monitorVars, removals, parentAlive, configVars, orchestratorVars, arrived, payload, budgetVars, throttleVars >>

ReturnProgressLookup(h) ==
    ReturnProgressLookupBy(h, FALSE, {ProgressText(rpCount[h] + 1)})

\* the task_id check and bridge.parent_session()
ReturnProgressCheck(h) ==
    /\ rpc[h] = "check"
    /\ LET e == ProgressPrecondition(rpArgs[h], rpBridge[h]) IN
       IF e # None
       THEN /\ ProgressReturn(h, ProgressErr(e))
            /\ rpArgs' = [rpArgs EXCEPT ![h] = NoProgressArgs]
            /\ rpBridge' = [rpBridge EXCEPT ![h] = None]
       ELSE /\ rpc' = [rpc EXCEPT ![h] = "set_last_progress"]
            /\ UNCHANGED << rpArgs, rpBridge, rpResult >>
    /\ UNCHANGED << handlerVars, registry, bridgeState, sink, child, activeChildren,
                    injected, chan, monitorVars, rpCount, removals, parentAlive, configVars, orchestratorVars, arrived, payload, budgetVars, throttleVars >>

\* Faulty variant: final_markdown is written whatever is_final says
ReturnProgressSetLastThenFinal(h) ==
    /\ rpc[h] = "set_last_progress"
    /\ bridgeState' = [bridgeState EXCEPT ![rpBridge[h]] = SetLastProgress(@, rpArgs[h].progress)]
    /\ rpc' = [rpc EXCEPT ![h] = "set_final_markdown"]
    /\ UNCHANGED << handlerVars, registry, sink, child, activeChildren, injected, chan,
                    monitorVars, rpArgs, rpBridge, rpResult, rpCount, removals, parentAlive, configVars, orchestratorVars, arrived, payload, budgetVars, throttleVars >>

\* bridge.set_last_progress(message.clone()).await
ReturnProgressSetLast(h) ==
    /\ rpc[h] = "set_last_progress"
    /\ bridgeState' = [bridgeState EXCEPT ![rpBridge[h]] = SetLastProgress(@, rpArgs[h].progress)]
    /\ rpc' = [rpc EXCEPT ![h] = IF rpArgs[h].is_final THEN "set_final_markdown" ELSE "send_event"]
    /\ UNCHANGED << handlerVars, registry, sink, child, activeChildren, injected, chan,
                    monitorVars, rpArgs, rpBridge, rpResult, rpCount, removals, parentAlive, configVars, orchestratorVars, arrived, payload, budgetVars, throttleVars >>

\* if args.is_final { bridge.set_final_markdown(message.clone()).await }
ReturnProgressSetFinal(h) ==
    /\ rpc[h] = "set_final_markdown"
    /\ bridgeState' = [bridgeState EXCEPT ![rpBridge[h]] = SetFinalMarkdown(@, rpArgs[h].progress)]
    /\ rpc' = [rpc EXCEPT ![h] = "send_event"]
    /\ UNCHANGED << handlerVars, registry, sink, child, activeChildren, injected, chan,
                    monitorVars, rpArgs, rpBridge, rpResult, rpCount, removals, parentAlive, configVars, orchestratorVars, arrived, payload, budgetVars, throttleVars >>

\* parent_session.send_event(AgentProgress) and the ok response
ReturnProgressSend(h) ==
    /\ rpc[h] = "send_event"
    /\ sink' = [sink EXCEPT ![rpBridge[h]] =
                  Append(@, AgentProgress(args[rpBridge[h]].task_id, rpArgs[h].progress))]
    /\ ProgressReturn(h, ProgressOk(rpArgs[h].is_final))
    /\ rpArgs' = [rpArgs EXCEPT ![h] = NoProgressArgs]
    /\ rpBridge' = [rpBridge EXCEPT ![h] = None]
    /\ UNCHANGED << handlerVars, registry, bridgeState, child, activeChildren, injected,
                    chan, monitorVars, rpCount, removals, parentAlive, configVars, orchestratorVars, arrived, payload, budgetVars, throttleVars >>

\* The steps that follow the lookup of the bridge
ReturnProgressSteps(h) ==
    \/ ReturnProgressCheck(h)
    \/ ReturnProgressSetLast(h)
    \/ ReturnProgressSetFinal(h)
    \/ ReturnProgressSend(h)

ReturnProgress(h) ==
    \/ ReturnProgressLookup(h)
    \/ ReturnProgressSteps(h)

-----------------------------------------------------------------------------
(* The parent session is dropped once nothing holds a strong reference:    *)
(* no tool invocation is in flight and every monitor task has ended.       *)

ParentDrop ==
    /\ parentAlive
    /\ \E h \in Calls : hpc[h] = "returned"
    /\ \A h \in Calls : /\ hpc[h] \in {HandleOrder[1], "returned"}
                         /\ mpc[h] \in {None, "done"}
                         /\ rpc[h] \in {"idle", "check"}
    /\ parentAlive' = FALSE
    /\ UNCHANGED << handlerVars, registry, bridgeState, sink, child, activeChildren,
                    injected, chan, monitorVars, progressVars, removals,
                    payload, budgetVars, throttleVars, arrived, configVars, orchestratorVars >>

-----------------------------------------------------------------------------
(* Orchestrator operations *)

\* A task with any checklist awaits validation
InitChecklist ==
    /\ InitSession(DefaultParentConfig)
    /\ task \in {TaskSpec(c) : c \in Checklists}
    /\ validation = NoValidation
    /\ truncator = OutputTruncator(OUTPUT_TOKEN_LIMIT)
    /\ lastCall = NoCall

\* The task's checklist is validated (complete_child calls validate_checklist)
ValidateChecklist ==
    /\ validation = NoValidation
    /\ validation' = SomeValidation(validate_checklist(task))
    /\ UNCHANGED << sessionVars, task, truncator, lastCall >>

\* A truncator is constructed with any limit up to MaxLimit
InitTruncator ==
    /\ InitSession(DefaultParentConfig)
    /\ task = TaskSpec(<< >>)
    /\ validation = NoValidation
    /\ truncator \in {OutputTruncator(limit) : limit \in 0..MaxLimit}
    /\ lastCall = NoCall

\* One truncate_if_needed(content) call on the truncator
TruncateIfNeeded(content) ==
    /\ LET r == truncate_if_needed(truncator, content) IN
          /\ truncator' = r.self
          /\ lastCall' = Call(content, r.text, r.truncated)
    /\ UNCHANGED << sessionVars, task, validation >>

-----------------------------------------------------------------------------
(* Specifications *)

\* A parent turn with one spawn_agent call whose child may call
\* return_progress at any moment of its run.
SoloCalls == {"call-1"}

Next ==
    \/ \E h \in SoloCalls : Handle(h)
    \/ \E h \in SoloCalls : Monitor(h)
    \/ \E h \in SoloCalls : ReturnProgress(h)
    \/ ParentDrop

Spec == Init /\ [][Next]_vars

\* A parent turn with concurrent spawn_agent calls (the children report
\* through their event streams only).
NextSiblings ==
    \/ \E h \in Calls : Handle(h)
    \/ \E h \in Calls : Monitor(h)
    \/ ParentDrop

SpecSiblings == Init /\ [][NextSiblings]_vars

\* One spawn_agent call whose child streams deltas and messages while time
\* passes, until its stream closes.
NextBudget ==
    \/ \E h \in SoloCalls : Handle(h)
    \/ \E h \in SoloCalls : MonitorNextTextEvent(h)
    \/ \E h \in SoloCalls : MonitorForward(h)
    \/ \E h \in SoloCalls : MonitorText(h)
    \/ \E h \in SoloCalls : MonitorExit(h)
    \/ Tick

SpecBudget == Init /\ [][NextBudget]_vars

\* The child's first turn calls test_sync_tool, which returns once
\* BarrierParticipants children have reached the barrier
ChildReachBarrier(h) ==
    /\ child[h] = "running"
    /\ h \notin arrived
    /\ arrived' = arrived \cup {h}
    /\ UNCHANGED << handlerVars, registry, bridgeState, sink, child, activeChildren,
                    injected, chan, monitorVars, progressVars, removals, parentAlive, configVars, orchestratorVars,
                    payload, budgetVars, throttleVars >>

BarrierReleased == Cardinality(arrived) >= BarrierParticipants

\* The child's second turn, after the barrier: it completes, or its stream closes
MonitorNextBarrierEvent(h) ==
    /\ BarrierReleased
    /\ MonitorNextEventOf(h, {"TaskComplete"}, {})

\* The two spawn_agent calls of one parent turn, each child waiting at the
\* barrier for the other.  Every task that can run is run eventually.
NextBarrier ==
    \/ \E h \in Calls : Handle(h)
    \/ \E h \in Calls : ChildReachBarrier(h)
    \/ \E h \in Calls : MonitorNextBarrierEvent(h)
    \/ \E h \in Calls : MonitorSteps(h)

SpecBarrier ==
    /\ Init /\ [][NextBarrier]_vars
    /\ \A h \in Calls :
          /\ WF_vars(Handle(h))
          /\ WF_vars(ChildReachBarrier(h))
          /\ WF_vars(MonitorNextBarrierEvent(h) \/ MonitorSteps(h))

\* The texts of a child that also reports through return_progress
SummaryTexts == {ShortText, WideText}

\* Its stream ends with TaskComplete or by closing
MonitorNextSummaryEvent(h) ==
    MonitorNextEventOf(h, (IF TextCount(h) < MaxMessages THEN TextKinds ELSE {})
                              \cup {"TaskComplete"}, SummaryTexts)

\* One spawn_agent call whose child streams text, calls return_progress at
\* any moment of its run and completes its task.
NextSummary ==
    \/ \E h \in SoloCalls : Handle(h)
    \/ \E h \in SoloCalls : MonitorNextSummaryEvent(h)
    \/ \E h \in SoloCalls : MonitorText(h)
    \/ \E h \in SoloCalls : MonitorSteps(h)
    \/ \E h \in SoloCalls : ReturnProgress(h)

SpecSummary == Init /\ [][NextSummary]_vars

\* One spawn_agent call whose child calls return_progress from its first
\* task or from the task that replaced it, with a text that may be empty.
NextProgress ==
    \/ \E h \in SoloCalls : Handle(h)
    \/ \E h \in SoloCalls : Monitor(h)
    \/ \E h \in SoloCalls :
          ReturnProgressLookupBy(h, TRUE, {ProgressText(rpCount[h] + 1), EmptyProgress})
    \/ \E h \in SoloCalls : ReturnProgressSteps(h)
    \/ ParentDrop

SpecProgress == Init /\ [][NextProgress]_vars

\* One spawn_agent call that may be cancelled while it waits for its child.
NextCancel ==
    \/ \E h \in SoloCalls : Handle(h)
    \/ \E h \in SoloCalls : HandleDropped(h)
    \/ \E h \in SoloCalls : Monitor(h)

SpecCancel == Init /\ [][NextCancel]_vars

\* One spawn_agent call with or without a profile argument, under each of
\* the parent configurations.
NextConfig ==
    \/ \E h \in SoloCalls : HandleParseOf(h, ProfileArgs)
    \/ \E h \in SoloCalls : HandleSteps(h)
    \/ \E h \in SoloCalls : Monitor(h)

SpecConfig == (\E c \in ParentConfigs : InitUnder(c)) /\ [][NextConfig]_vars

\* A child of a parent with several children: it completes its task, or its
\* stream closes
MonitorNextFamilyEvent(h) == MonitorNextEventOf(h, {"TaskComplete"}, {})

\* Concurrent spawn_agent calls of one parent; the child of the first
\* reports through return_progress while both run.
NextFamily ==
    \/ \E h \in Calls : Handle(h)
    \/ \E h \in Calls : MonitorNextFamilyEvent(h)
    \/ \E h \in Calls : MonitorSteps(h)
    \/ \E h \in SoloCalls : ReturnProgress(h)

SpecFamily == Init /\ [][NextFamily]_vars

\* Validation of a task's checklist
NextChecklist == ValidateChecklist

SpecChecklist == InitChecklist /\ [][NextChecklist]_vars

\* Any sequence of truncate_if_needed calls on one truncator
NextTruncator == \E content \in Contents : TruncateIfNeeded(content)

SpecTruncator == InitTruncator /\ [][NextTruncator]_vars

-----------------------------------------------------------------------------
(* Properties *)

HasBridge(h) == \E e \in registry : e.bridge = h

Sent(h, type) == \E i \in 1..Len(sink[h]) : sink[h][i].type = type

TerminalReceived(h) == Len(recv[h]) > 0 /\ LastEvent(h) \in TerminalKinds

\* C1 (register before submit): from the moment the child's prompt is
\* submitted until the monitor has seen the end of the child's stream, the
\* lookup of the child's conversation id yields the child's own bridge, and
\* no return_progress call of the child fails with "not a subagent".
C1_RegisterBeforeSubmit ==
    \A h \in Calls :
        /\ child[h] = "running" => RegistryGet(registry, conv[h]) = h
        /\ rpResult[h].status # "NotASubagent"

\* A return_progress call found its bridge before the monitor was started.
C1_Witness ==
    \E h \in Calls : rpc[h] = "set_last_progress" /\ rpBridge[h] = h /\ mpc[h] = None

\* C2 (cleanup on exit): once the monitor task has ended, whichever way it
\* left its loop, the registry holds neither the child's bridge nor an entry
\* for the child's conversation id.
C2_MonitorExitRemovesBridge ==
    \A h \in Calls :
        mpc[h] = "done" => ~HasBridge(h) /\ ~RegistryHas(registry, conv[h])

\* The monitor ended because the stream closed without a terminal event.
C2_Witness ==
    \E h \in Calls : mpc[h] = "done" /\ child[h] = "closed" /\ ~TerminalReceived(h)

\* C3 (error paths remove the bridge): when spawn_agent has returned a tool
\* error, the registry does not hold the bridge the call registered.
C3_ErrorPathsRemoveBridge ==
    \A h \in Calls :
        hpc[h] = "returned" /\ herr[h] # None => ~HasBridge(h)

\* A returned function result reports what the channel held
C4_ValueOrClosed(h) ==
    hpc[h] = "returned" /\ herr[h] = None =>
        \/ result[h].content = "outcome" /\ chan[h].state = "sent"
        \/ result[h].content = "did not report a result" /\ chan[h].state = "closed"

\* An ended monitor leaves the channel resolved and the waiting handler able to go on
C4_NoWaitAfterExit(h) ==
    mpc[h] = "done" =>
        /\ chan[h].state \in {"sent", "closed"}
        /\ hpc[h] = "await" => ENABLED HandleAwait(h)

\* A sent value stays
C4_SentOnce(h) == chan[h].state = "sent" => chan'[h] = chan[h]

\* C4 (single outcome): a value sent on the outcome channel is never replaced
\* by another; a call that returned a function result observed a sent value
\* exactly when it reports an outcome and a closed channel exactly when it
\* reports "did not report a result"; and once the monitor has ended, a
\* handler still waiting on the channel can complete its wait.
C4_SingleOutcome ==
    /\ [](\A h \in Calls : C4_ValueOrClosed(h) /\ C4_NoWaitAfterExit(h))
    /\ [][\A h \in Calls : C4_SentOnce(h)]_vars

\* The handler observed the closed channel.
C4_Witness ==
    \E h \in Calls : hpc[h] = "returned" /\ result[h].content = "did not report a result"

\* C5 (terminal events resolve the outcome): after a terminal event, the
\* ended monitor has sent one outcome whose success flag is true exactly for
\* TaskComplete; a value is only ever sent after a terminal event; the tool
\* result built from it has status "completed" iff success, else "failed".
C5_TerminalResolvesOutcome ==
    \A h \in Calls :
        /\ mpc[h] = "done" /\ TerminalReceived(h) =>
              /\ chan[h].state = "sent"
              /\ chan[h].value.success = (LastEvent(h) = "TaskComplete")
        /\ chan[h].state = "sent" => TerminalReceived(h)
        /\ result[h].content = "outcome" =>
              /\ result[h].success = chan[h].value.success
              /\ result[h].status = IF result[h].success THEN "completed" ELSE "failed"
              /\ (result[h].status = "completed") = (LastEvent(h) = "TaskComplete")

\* A child error came back as a "failed" tool result.
C5_Witness ==
    \E h \in Calls :
        /\ hpc[h] = "returned" /\ result[h].status = "failed"
        /\ LastEvent(h) = "Error"

\* C6 (terminal ordering): inject_input is called only after AgentCompleted
\* was sent; the outcome is sent only after inject_input returned; the
\* function result is returned only after the outcome was sent.
C6_TerminalOrdering ==
    \A h \in Calls :
        /\ injected[h] # None => Sent(h, "AgentCompleted")
        /\ chan[h].state = "sent" => injected[h] # None /\ Sent(h, "AgentCompleted")
        /\ result[h].content = "outcome" => chan[h].state = "sent"

\* The call returned an outcome that was injected into the parent's turn.
C6_Witness ==
    \E h \in Calls :
        /\ hpc[h] = "returned" /\ result[h].content = "outcome"
        /\ injected[h] = "ok" /\ result[h].injected_into_turn

\* C7 (AgentSpawned first): once the child's prompt has been submitted the
\* parent has been sent AgentSpawned, and AgentSpawned is the first event of
\* the child the parent is sent, so it precedes every AgentEvent,
\* AgentProgress and AgentCompleted of that child.
C7_SpawnedFirst ==
    \A h \in Calls :
        /\ child[h] \in {"running", "ended", "closed"} => Sent(h, "AgentSpawned")
        /\ sink[h] # << >> => sink[h][1].type = "AgentSpawned"
        /\ \A i \in 2..Len(sink[h]) : sink[h][i].type # "AgentSpawned"

\* The child's return_progress reached the parent right behind AgentSpawned,
\* before the monitor was started.
C7_Witness ==
    \E h \in Calls :
        /\ Len(sink[h]) >= 2 /\ sink[h][2].type = "AgentProgress"
        /\ mpc[h] = None

\* The events forwarded to the parent for call h, in the order sent
Forwarded(h) ==
    LET f == SelectSeq(sink[h], LAMBDA e : e.type = "AgentEvent")
    IN [i \in 1..Len(f) |-> f[i].detail]

\* C8 (forward every event once, in order): the AgentEvents sent to the
\* parent wrap exactly the events received from the child, once each and in
\* the order received; only the event just received may still be unsent.
C8_ForwardOrder ==
    \A h \in Calls :
        Forwarded(h) = IF mpc[h] = "forward"
                       THEN SubSeq(recv[h], 1, Len(recv[h]) - 1)
                       ELSE recv[h]

\* An ignored event followed by a terminal event were both forwarded.
C8_Witness ==
    \E h \in Calls :
        /\ mpc[h] = "done" /\ Len(recv[h]) = 2
        /\ recv[h][1] = "AgentReasoning" /\ recv[h][2] \in TerminalKinds
        /\ Forwarded(h) = recv[h]

\* No two entries of the registry share a conversation id
C9_Unique ==
    \A e1, e2 \in registry : e1.conversation_id = e2.conversation_id => e1 = e2

\* A call refused by the registry went no further
C9_FailedRegisterStops(h) ==
    herr[h] = "RegistryInsertFailed" =>
        /\ hpc[h] = "returned"
        /\ ~HasBridge(h)
        /\ sink[h] = << >>
        /\ child[h] = "created"
        /\ mpc[h] = None /\ chan[h].state = None

\* The register step of a call whose conversation id is present
C9_DuplicateRejected(h) ==
    hpc[h] = "register_bridge" /\ hpc'[h] # hpc[h] /\ RegistryHas(registry, conv[h]) =>
        /\ registry' = registry
        /\ hpc'[h] = "returned" /\ herr'[h] = "RegistryInsertFailed"

\* C9 (bridge uniqueness): the registry never holds two bridges for one
\* conversation id; a register of an id that is present changes nothing in
\* the registry and makes the call return the registration error; such a
\* call has sent no AgentSpawned, submitted no prompt and started no monitor.
C9_BridgeUniqueness ==
    /\ [](C9_Unique /\ \A h \in Calls : C9_FailedRegisterStops(h))
    /\ [][\A h \in Calls : C9_DuplicateRejected(h)]_vars

\* A call was refused because its conversation id is held by the bridge of
\* another call, which is still registered.
C9_Witness ==
    \E h \in Calls :
        /\ herr[h] = "RegistryInsertFailed"
        /\ RegistryGet(registry, conv[h]) \in Calls \ {h}

\* At most one remove found the bridge, and none finds the id afterwards
C10_AtMostOneRemoval(h) ==
    /\ removals[h] <= 1
    /\ removals[h] >= 1 => RegistryGet(registry, conv[h]) = None

\* The remove after the loop, on a terminal path
C10_RepeatedRemoveNoOp(h) ==
    mpc[h] = "exit_remove" /\ mpc'[h] = "done" /\ TerminalReceived(h) =>
        registry' = registry /\ removals' = removals

\* C10 (idempotent remove): of the removes issued for a registered bridge at
\* most one reports a removal; on a terminal path the remove after the loop
\* repeats the branch's remove and leaves the registry unchanged; after the
\* first remove no lookup of the conversation id succeeds.
C10_RemoveIdempotent ==
    /\ [](\A h \in Calls : C10_AtMostOneRemoval(h))
    /\ [][\A h \in Calls : C10_RepeatedRemoveNoOp(h)]_vars

\* Both removes of a terminal path ran and one reported the removal.
C10_Witness ==
    \E h \in Calls : mpc[h] = "done" /\ TerminalReceived(h) /\ removals[h] = 1

\* C11 (stream closed without a terminal event): a monitor that ended
\* without having received a terminal event sent no outcome, left the
\* channel closed and removed the bridge; the call then returns a function
\* result with success = false whose content is the "did not report a
\* result" text for the call's task_id.
C11_StreamClosedResult ==
    \A h \in Calls :
        /\ mpc[h] = "done" /\ ~TerminalReceived(h) =>
              /\ chan[h].state = "closed" /\ chan[h].value = NoOutcome
              /\ ~HasBridge(h) /\ ~RegistryHas(registry, conv[h])
        /\ hpc[h] = "returned" /\ herr[h] = None /\ ~TerminalReceived(h) =>
              /\ mpc[h] = "done"
              /\ result[h].content = "did not report a result"
              /\ result[h].agent_id = args[h].task_id
              /\ result[h].success = FALSE

\* The stream closed after an event that was not terminal, and the call returned.
C11_Witness ==
    \E h \in Calls :
        /\ hpc[h] = "returned" /\ child[h] = "closed" /\ Len(recv[h]) > 0
        /\ result[h].content = "did not report a result" /\ ~HasBridge(h)

\* A child the handler has added to the active-child index and whose run has
\* not ended
ActiveChild(h) == hpc[h] \in {"spawn_monitor", "await"} /\ child[h] = "running"

\* C12 (agent id unique among active children): no two children that are
\* registered with the parent and still running carry the same agent id.
C12_AgentIdUnique ==
    \A h1, h2 \in Calls :
        h1 # h2 /\ ActiveChild(h1) /\ ActiveChild(h2) => args[h1].task_id # args[h2].task_id

\* C20 (TurnAborted): once the monitor has handled TurnAborted it has sent
\* AgentCompleted with success = false and the text of the event's reason,
\* the channel holds an outcome with success = false and the same markdown,
\* and the bridge is gone from the registry.
C20_TurnAborted ==
    \A h \in Calls :
        mpc[h] = "done" /\ TerminalReceived(h) /\ LastEvent(h) = "TurnAborted" =>
            LET text == CASE payload[h].reason = "Interrupted" -> "The subagent was interrupted by user."
                          [] payload[h].reason = "Replaced" -> "The subagent was replaced by another task."
                          [] payload[h].reason = "ReviewEnded" -> "The subagent was review ended."
            IN /\ \E i \in 1..Len(sink[h]) :
                      /\ sink[h][i].type = "AgentCompleted"
                      /\ sink[h][i].agent_id = args[h].task_id
                      /\ sink[h][i].success = FALSE
                      /\ sink[h][i].detail = Markdown("aborted", text)
               /\ chan[h].state = "sent"
               /\ chan[h].value.success = FALSE
               /\ chan[h].value.markdown = Markdown("aborted", text)
               /\ ~HasBridge(h) /\ ~RegistryHas(registry, conv[h])

\* A child replaced by another task came back as a failed result.
C20_Witness ==
    \E h \in Calls :
        /\ hpc[h] = "returned" /\ TerminalReceived(h) /\ LastEvent(h) = "TurnAborted"
        /\ payload[h].reason = "Replaced"
        /\ result[h].status = "failed" /\ result[h].markdown.body = "The subagent was replaced by another task."

\* C13 (budget monotone): over every sequence of AgentMessageDelta and
\* AgentMessage events output_token_count never decreases and never exceeds
\* OUTPUT_TOKEN_LIMIT, and whenever truncated is set it equals the limit.
C13_BudgetMonotone ==
    /\ [](\A h \in Calls :
            /\ output_token_count[h] <= OUTPUT_TOKEN_LIMIT
            /\ truncated[h] => output_token_count[h] = OUTPUT_TOKEN_LIMIT)
    /\ [][\A h \in Calls : output_token_count'[h] >= output_token_count[h]]_vars

\* A delta that fitted was followed by one that saturated the budget.
C13_Witness ==
    \E h \in Calls :
        /\ truncated[h] /\ output_token_count[h] = OUTPUT_TOKEN_LIMIT
        /\ Len(accumulated_output[h]) = 3 /\ accumulated_output[h][1] = ShortText
        /\ recv[h] = << "AgentMessageDelta", "AgentMessageDelta" >>

\* C14 (single marker): the accumulated output holds the truncation marker
\* exactly when truncated is set, then once and as its last piece; once
\* truncated is set no delta and no message changes the accumulated output.
C14_SingleMarker ==
    /\ [](\A h \in Calls :
            /\ Markers(accumulated_output[h]) = IF truncated[h] THEN 1 ELSE 0
            /\ truncated[h] =>
                  accumulated_output[h][Len(accumulated_output[h])] = Marker)
    /\ [][\A h \in Calls :
            truncated[h] =>
                truncated'[h] /\ accumulated_output'[h] = accumulated_output[h]]_vars

\* The first delta saturated the budget and a later message of the budget's
\* full size was handled.
C14_Witness ==
    \E h \in Calls :
        /\ mpc[h] = "done" /\ recv[h] = << "AgentMessageDelta", "AgentMessage" >>
        /\ last_message[h] = FullText
        /\ accumulated_output[h] = << WideText, Marker >>

\* C15 (output length): the accumulated output never holds more than
\* OUTPUT_TOKEN_LIMIT * 4 chars plus the chars of the marker.
C15_OutputLength ==
    \A h \in Calls :
        OutputChars(accumulated_output[h]) <= OUTPUT_TOKEN_LIMIT * 4 + MarkerChars

\* C18 (throttle bound): the delta-derived AgentProgress events are one per
\* delta at most, each sent for a delta received; one sent for a buffer
\* without newline and of at most 500 bytes comes at least the interval
\* after the previous one (or after the start of the monitor).
C18_ThrottleBound ==
    \A h \in Calls :
        /\ Len(flushes[h]) <= DeltaCount(h)
        /\ Len(SelectSeq(sink[h], LAMBDA e : e.type = "AgentProgress" /\ e.detail = "snippet"))
              = Len(flushes[h])
        /\ \A i \in 1..Len(flushes[h]) :
              /\ flushes[h][i].delta >= 1
              /\ i > 1 => flushes[h][i].delta > flushes[h][i - 1].delta
              /\ ~flushes[h][i].newline /\ flushes[h][i].bytes <= FlushBytes =>
                    flushes[h][i].gap >= ProgressIntervalMs

\* A short delta without newline was flushed after an earlier flush because
\* the interval had passed.
C18_Witness ==
    \E h \in Calls :
        /\ Len(flushes[h]) = 2
        /\ ~flushes[h][2].newline /\ flushes[h][2].bytes <= FlushBytes
        /\ flushes[h][2].gap >= ProgressIntervalMs

\* The AgentCompleted event sent for call h, once it has been sent
Completed(h) ==
    LET c == SelectSeq(sink[h], LAMBDA e : e.type = "AgentCompleted") IN c[1]

\* C16 (heading policy): the heading of the summary sent on TaskComplete,
\* and of the markdown of the outcome, carries the truncation suffix exactly
\* when the accumulated output was truncated and the monitor read no
\* final_markdown from the bridge.
C16_HeadingPolicy ==
    \A h \in Calls :
        TerminalReceived(h) /\ LastEvent(h) = "TaskComplete" /\ Sent(h, "AgentCompleted") =>
            /\ Completed(h).detail.heading \in {"ok", "ok (output truncated to 5k tokens)"}
            /\ (Completed(h).detail.heading = "ok (output truncated to 5k tokens)")
                  = (Markers(accumulated_output[h]) = 1 /\ mfinal[h] = None)
            /\ chan[h].state = "sent" =>
                  chan[h].value.markdown.heading = Completed(h).detail.heading

\* The truncation was reported in the result of a child that had also
\* reported progress through return_progress.
C16_Witness ==
    \E h \in Calls :
        /\ hpc[h] = "returned"
        /\ result[h].markdown.heading = "ok (output truncated to 5k tokens)"
        /\ rpResult[h].status = "ok"

\* The body of a summary: the final text read from the bridge, else the fallback
C17_Body(h) ==
    TerminalReceived(h) /\ LastEvent(h) = "TaskComplete" /\ Sent(h, "AgentCompleted") =>
        /\ Completed(h).detail.body =
              IF mfinal[h] # None THEN mfinal[h] ELSE FallbackBody(h)
        /\ mfinal[h] # None =>
              \E n \in 1..Len(ProgressTexts) : mfinal[h] = ProgressTexts[n]
        /\ chan[h].state = "sent" => chan[h].value.markdown.body = Completed(h).detail.body
        /\ result[h].content = "outcome" => result[h].markdown.body = Completed(h).detail.body

\* The writes of final_markdown and the monitor's read of it
C17_FinalMarkdownWrites(h) ==
    /\ rpc[h] = "set_final_markdown" /\ rpc'[h] # rpc[h] =>
          bridgeState'[rpBridge[h]].final_markdown = rpArgs[h].progress
    /\ mpc[h] = "read_final" /\ mpc'[h] # mpc[h] =>
          mfinal'[h] = bridgeState[h].final_markdown
    /\ mpc[h] = "set_final" /\ mpc'[h] # mpc[h] =>
          mfinal[h] = None /\ bridgeState'[h].final_markdown = FallbackBody(h)

\* C17 (final_markdown wins): return_progress with is_final writes its text
\* to the bridge's final_markdown; what the monitor reads from the bridge on
\* TaskComplete, if anything, is the body of the AgentCompleted summary and of
\* the returned markdown, whatever the accumulated output, the TaskComplete
\* message and the last AgentMessage are; if it reads nothing the body is
\* the fallback, which it writes to the bridge.
C17_FinalMarkdownWins ==
    /\ [](\A h \in Calls : C17_Body(h))
    /\ [][\A h \in Calls : C17_FinalMarkdownWrites(h)]_vars

\* The returned body is the child's final progress text although the child
\* had streamed output, sent a message and completed with a message.
C17_Witness ==
    \E h \in Calls :
        /\ hpc[h] = "returned" /\ result[h].markdown.body = ProgressTexts[1]
        /\ accumulated_output[h] # << >>
        /\ last_message[h] # NoText
        /\ payload[h].text = ShortText

\* A returned call observed its own monitor's outcome or its dropped sender,
\* after both children had reached the barrier
C19_BlocksOnOwnChild(h) ==
    hpc[h] = "returned" /\ herr[h] = None =>
        /\ arrived = Calls
        /\ \/ chan[h].state = "sent" /\ result[h].content = "outcome"
              /\ result[h].agent_id = args[h].task_id
              /\ result[h].markdown = chan[h].value.markdown
           \/ chan[h].state = "closed" /\ mpc[h] = "done"
              /\ result[h].content = "did not report a result"

\* C19 (parallel children, blocking calls): with two spawn_agent calls in
\* one turn whose children each wait at a two-participant barrier, once
\* both children run both reach the barrier and both calls return; and a
\* call returns a function result only after its own monitor has sent the
\* outcome or dropped the sender, which it does only after the barrier.
C19_ParallelChildren ==
    /\ [](\A h \in Calls : C19_BlocksOnOwnChild(h))
    /\ (\A h \in Calls : child[h] = "running")
          ~> (arrived = Calls /\ \A h \in Calls : hpc[h] = "returned")

\* Both calls returned the outcome of their own child, the children named
\* as in the test.
C19_Witness ==
    /\ arrived = Calls
    /\ \A h \in Calls : hpc[h] = "returned" /\ result[h].status = "completed"
    /\ args["call-1"].task_id = "child-1" /\ args["call-2"].task_id = "child-2"

\* The BackgroundEvent sent for call h, once it has been sent
Background(h) ==
    LET b == SelectSeq(sink[h], LAMBDA e : e.type = "BackgroundEvent") IN b[1]

\* What every terminal path does with the result of inject_input
C21_InjectionReported(h) ==
    /\ Sent(h, "BackgroundEvent") => injected[h] = "failed"
    /\ Len(SelectSeq(sink[h], LAMBDA e : e.type = "BackgroundEvent")) <= 1
    /\ injected[h] # None =>
          /\ TerminalReceived(h)
          /\ Completed(h).success = (LastEvent(h) = "TaskComplete")
          /\ mpc[h] \notin {"inject_input", "background_event"} =>
                (Sent(h, "BackgroundEvent") <=> injected[h] = "failed")
    /\ chan[h].state = "sent" =>
          /\ chan[h].value.injected_into_turn = (injected[h] = "ok")
          /\ chan[h].value.markdown = Completed(h).detail
    /\ result[h].content = "outcome" =>
          result[h].injected_into_turn = (injected[h] = "ok")

ProgressFailures == {"NotASubagent", "WrongAgent", "ParentGone"}

\* The text of a progress call appears in the bridge or in an AgentProgress
\* sent to the parent
ProgressRecorded(h, text) ==
    \/ bridgeState[h].last_progress = text
    \/ bridgeState[h].final_markdown = text
    \/ \E i \in 1..Len(sink[h]) :
          sink[h][i].type = "AgentProgress" /\ sink[h][i].detail = text

\* The lookup step: without a bridge the call fails at once
C22_LookupFirst(h) ==
    rpc[h] = "idle" /\ rpCount'[h] # rpCount[h] =>
        IF RegistryGet(registry, conv[h]) = None
        THEN rpc'[h] = "idle" /\ rpResult'[h].status = "NotASubagent"
        ELSE rpc'[h] = "check" /\ rpResult'[h] = rpResult[h]

\* The step after the lookup: the task_id is compared before the parent is
\* resolved
C22_TaskIdBeforeParent(h) ==
    rpc[h] = "check" /\ rpc'[h] # "check" =>
        IF rpArgs[h].task_id # None /\ rpArgs[h].task_id # args[rpBridge[h]].task_id
        THEN rpc'[h] = "idle" /\ rpResult'[h].status = "WrongAgent"
        ELSE IF ~parentAlive
        THEN rpc'[h] = "idle" /\ rpResult'[h].status = "ParentGone"
        ELSE rpc'[h] = "set_last_progress" /\ rpResult'[h] = rpResult[h]

\* A step that ends a call with a failure changes neither bridge nor sink
C22_FailureWritesNothing(h) ==
    rpc'[h] = "idle" /\ (rpCount'[h] # rpCount[h] \/ rpc[h] = "check") =>
        /\ rpResult'[h].status \in ProgressFailures
        /\ bridgeState' = bridgeState /\ sink' = sink

\* C22 (precondition order of return_progress): a call that finds no
\* bridge for its conversation fails with NotASubagent; one that finds a
\* bridge fails with WrongAgent if its task_id is supplied and differs from
\* the bridge's agent_id, whether or not the parent is alive, and with
\* ParentGone only if the task_id passes and the parent is gone; a failed
\* call leaves last_progress and final_markdown as they were and sends no
\* AgentProgress, so its text is recorded nowhere.
C22_PreconditionOrder ==
    /\ [](\A h \in Calls :
            rpc[h] = "idle" /\ rpResult[h].status \in ProgressFailures =>
                /\ ~ProgressRecorded(h, ProgressText(rpCount[h]))
                /\ rpCount[h] = 1 => ~ProgressRecorded(h, EmptyProgress))
    /\ [][\A h \in Calls :
            C22_LookupFirst(h) /\ C22_TaskIdBeforeParent(h) /\ C22_FailureWritesNothing(h)]_vars

\* A call that found its bridge is about to be checked with a task_id that
\* differs from the bridge's agent_id after the parent session was dropped:
\* both of the later preconditions are violated at once.
C22_Witness ==
    \E h \in Calls :
        /\ rpc[h] = "check" /\ ~parentAlive
        /\ rpArgs[h].task_id # None /\ rpArgs[h].task_id # args[rpBridge[h]].task_id

\* The AgentProgress events of call h that carry text t
ProgressEvents(h, t) ==
    SelectSeq(sink[h], LAMBDA e : e.type = "AgentProgress" /\ e.detail = t)

\* The number of AgentProgress events call h's parent was sent by return_progress
ProgressEventCount(h) ==
    Len(SelectSeq(sink[h], LAMBDA e :
            /\ e.type = "AgentProgress"
            /\ \/ e.detail = EmptyProgress
               \/ \E n \in 1..Len(ProgressTexts) : e.detail = ProgressTexts[n]))

\* set_last_progress writes last_progress alone; final_markdown is written
\* next exactly when is_final
C23_SetLast(h) ==
    rpc[h] = "set_last_progress" /\ rpc'[h] # rpc[h] =>
        /\ bridgeState'[rpBridge[h]].last_progress = rpArgs[h].progress
        /\ bridgeState'[rpBridge[h]].final_markdown = bridgeState[rpBridge[h]].final_markdown
        /\ rpc'[h] = IF rpArgs[h].is_final THEN "set_final_markdown" ELSE "send_event"
        /\ sink' = sink

C23_SetFinal(h) ==
    rpc[h] = "set_final_markdown" /\ rpc'[h] # rpc[h] =>
        /\ rpArgs[h].is_final
        /\ bridgeState'[rpBridge[h]].final_markdown = rpArgs[h].progress
        /\ bridgeState'[rpBridge[h]].last_progress = bridgeState[rpBridge[h]].last_progress
        /\ rpc'[h] = "send_event"
        /\ sink' = sink

\* One AgentProgress goes to the sink of the bridge's own call, then the
\* call returns ok with its is_final
C23_Send(h) ==
    rpc[h] = "send_event" /\ rpc'[h] # rpc[h] =>
        LET b == rpBridge[h] IN
        /\ Len(sink'[b]) = Len(sink[b]) + 1
        /\ SubSeq(sink'[b], 1, Len(sink[b])) = sink[b]
        /\ sink'[b][Len(sink'[b])].type = "AgentProgress"
        /\ sink'[b][Len(sink'[b])].agent_id = args[b].task_id
        /\ sink'[b][Len(sink'[b])].detail = rpArgs[h].progress
        /\ \A c \in Calls \ {b} : sink'[c] = sink[c]
        /\ bridgeState' = bridgeState
        /\ rpc'[h] = "idle"
        /\ rpResult'[h] = [status |-> "ok", is_final |-> rpArgs[h].is_final]

\* After a call that returned ok, its text is the bridge's last_progress and
\* was sent to the parent under the bridge's agent id
C23_AfterSuccess(h) ==
    rpc[h] = "idle" /\ rpResult[h].status = "ok" =>
        \E t \in {ProgressText(rpCount[h]), EmptyProgress} :
            /\ bridgeState[h].last_progress = t
            /\ Len(ProgressEvents(h, t)) >= 1
            /\ \A i \in 1..Len(ProgressEvents(h, t)) :
                  ProgressEvents(h, t)[i].agent_id = args[h].task_id

\* C23 (successful return_progress): a call that passed its preconditions
\* sets the bridge's last_progress to its progress text, sets
\* final_markdown to it if is_final and leaves final_markdown alone if not,
\* sends one AgentProgress with the bridge's agent_id and the text to the
\* parent under the bridge's sub id, and returns status "ok" with its
\* is_final; the same with the empty text.
C23_ProgressRecorded ==
    /\ [](\A h \in Calls :
            /\ C23_AfterSuccess(h)
            /\ ProgressEventCount(h) <= rpCount[h]
            /\ rpc[h] # "idle" \/ rpResult[h].status \in ProgressFailures =>
                  ProgressEventCount(h) < rpCount[h]
            /\ rpc[h] = "idle" /\ rpResult[h].status = "ok" => ProgressEventCount(h) >= 1)
    /\ [][\A h \in Calls : C23_SetLast(h) /\ C23_SetFinal(h) /\ C23_Send(h)]_vars

\* A final call with the empty text returned ok: the bridge holds the empty
\* text twice and the parent was sent an AgentProgress with an empty message.
C23_Witness ==
    \E h \in Calls :
        /\ rpc[h] = "idle" /\ rpResult[h] = ProgressOk(TRUE)
        /\ bridgeState[h].last_progress = EmptyProgress
        /\ bridgeState[h].final_markdown = EmptyProgress
        /\ Len(ProgressEvents(h, EmptyProgress)) = 1

\* A step that is a set_final_markdown call on the bridge of call b, and
\* the value it was called with
C24_FinalWriter(b, v) ==
    \/ \E h \in Calls : /\ rpc[h] = "set_final_markdown" /\ rpc'[h] # rpc[h]
                         /\ rpBridge[h] = b /\ v = rpArgs[h].progress
    \/ mpc[b] = "set_final" /\ mpc'[b] # mpc[b] /\ v = SummaryBody(b)

\* The values a set_final_markdown call may carry
C24_FinalValues(b) ==
    {EmptyProgress, FallbackBody(b), SummaryBody(b)}
        \cup {ProgressTexts[n] : n \in 1..Len(ProgressTexts)}

\* Every set_final_markdown call leaves its value in the bridge, whatever
\* the bridge held, and leaves last_progress; nothing else writes
\* final_markdown, and set_last_progress leaves it
C24_Writes(b) ==
    /\ \A v \in C24_FinalValues(b) :
          C24_FinalWriter(b, v) =>
              /\ bridgeState'[b].final_markdown = v
              /\ bridgeState'[b].last_progress = bridgeState[b].last_progress
    /\ bridgeState'[b].final_markdown # bridgeState[b].final_markdown =>
          \E v \in C24_FinalValues(b) : C24_FinalWriter(b, v)
    /\ bridgeState'[b].last_progress # bridgeState[b].last_progress =>
          /\ \E h \in Calls : rpc[h] = "set_last_progress" /\ rpBridge[h] = b
          /\ bridgeState'[b].final_markdown = bridgeState[b].final_markdown

\* The read of final_markdown returns what the bridge holds
C24_Read(b) ==
    mpc[b] = "read_final" /\ mpc'[b] # mpc[b] => mfinal'[b] = bridgeState[b].final_markdown

\* C24 (last write of final_markdown wins): the bridge's final_markdown is
\* the value of the set_final_markdown call that took the bridge's lock
\* last, whether the calls come from the child's return_progress or from
\* the monitor, and a read returns it; set_final_markdown never changes
\* last_progress and set_last_progress never changes final_markdown.
C24_LastWriteWins ==
    [][\A b \in Calls : C24_Writes(b) /\ C24_Read(b)]_vars

\* Two tasks wrote final_markdown: the child's final return_progress, then
\* the monitor, which had read the bridge before the child wrote; the
\* bridge holds the monitor's value and the child's last_progress.
C24_Witness ==
    \E b \in Calls :
        /\ mpc[b] = "done" /\ rpc[b] = "idle" /\ rpResult[b] = ProgressOk(TRUE)
        /\ mfinal[b] = None
        /\ bridgeState[b].last_progress = ProgressTexts[1]
        /\ bridgeState[b].final_markdown = FallbackBody(b)

\* The failures handle returns as tool errors
ToolErrors ==
    {"BadInvocation", "BadArguments", "ConfigLoadFailed", "ConfigBuildFailed",
     "ConversationCreateFailed",
     "RegistryInsertFailed", "PromptSubmitFailed"}

\* C25 (tool errors end before the monitor starts): a call that returned a
\* tool error returned one of the six failures of the steps before the
\* monitor, and no monitor and no outcome channel exist for it; a call whose
\* monitor was started returns no tool error: after a child Error, a
\* TurnAborted or a stream that closed it returns a function result with
\* success = false.
C25_ErrorsBeforeMonitor ==
    \A h \in Calls :
        /\ herr[h] # None =>
              /\ herr[h] \in ToolErrors
              /\ hpc[h] = "returned"
              /\ mpc[h] = None /\ chan[h].state = None /\ recv[h] = << >>
              /\ result[h] = NoResult
        /\ mpc[h] # None => herr[h] = None
        /\ hpc[h] = "returned" /\ herr[h] = None =>
              /\ mpc[h] # None
              /\ result[h].content \in {"outcome", "did not report a result"}
              /\ result[h].success = (TerminalReceived(h) /\ LastEvent(h) = "TaskComplete")

\* The call whose child reported an Error returned a function result with
\* success = false and no tool error.
C25_Witness ==
    \E h \in Calls :
        /\ hpc[h] = "returned" /\ herr[h] = None
        /\ TerminalReceived(h) /\ LastEvent(h) = "Error"
        /\ result[h].content = "outcome" /\ ~result[h].success

\* C26 (receiver dropped before the terminal event): when the handler's
\* receiver was dropped before the monitor sends the outcome, the send is
\* not an obstacle: the monitor, having sent AgentCompleted and unregistered
\* the child, goes on to remove the bridge and ends; no value stays in the
\* channel.
C26_SendFailureIgnored ==
    \A h \in Calls :
        chan[h].state = "rx_dropped" =>
            /\ chan[h].value = NoOutcome
            /\ mpc[h] = "send_outcome" => ENABLED MonitorSendOutcome(h)
            /\ mpc[h] \in {"inject_input", "background_event", "send_outcome", "remove_bridge"} =>
                  Sent(h, "AgentCompleted") /\ activeChildren[args[h].task_id] = None
            /\ mpc[h] = "exit_remove" /\ TerminalReceived(h) =>
                  ~HasBridge(h) /\ ~RegistryHas(registry, conv[h])
            /\ mpc[h] = "done" /\ TerminalReceived(h) =>
                  /\ Sent(h, "AgentCompleted")
                  /\ activeChildren[args[h].task_id] = None
                  /\ ~HasBridge(h) /\ ~RegistryHas(registry, conv[h])
                  /\ removals[h] = 1

\* The receiver was dropped while the child ran; the child then completed
\* and the monitor ended after its clean-up.
C26_Witness ==
    \E h \in Calls :
        /\ hpc[h] = "dropped" /\ chan[h].state = "rx_dropped"
        /\ mpc[h] = "done" /\ TerminalReceived(h) /\ LastEvent(h) = "TaskComplete"
        /\ Sent(h, "AgentCompleted") /\ ~HasBridge(h)

\* C27 (configuration failures create nothing): a call that failed to load
\* the configuration file or to build the child's configuration for the
\* selected profile has returned that tool error, and no child
\* conversation, no bridge, no AgentSpawned, no monitor and no outcome
\* channel exist for it; such a failure needs a selected profile.
C27_ConfigFailureCreatesNothing ==
    \A h \in Calls :
        herr[h] \in {"ConfigLoadFailed", "ConfigBuildFailed"} =>
            /\ hpc[h] = "returned" /\ result[h] = NoResult
            /\ SelectedProfile(args[h].profile, parentConfig) # None
            /\ childConfig[h] = NoConfig
            /\ child[h] = "absent" /\ conv[h] = None
            /\ ~HasBridge(h) /\ registry = {}
            /\ sink[h] = << >>
            /\ activeChildren[args[h].task_id] = None
            /\ mpc[h] = None /\ chan[h].state = None

\* The configuration for the profile named by the call could not be built.
C27_Witness ==
    \E h \in Calls :
        /\ hpc[h] = "returned" /\ herr[h] = "ConfigBuildFailed"
        /\ args[h].profile = "agent-a" /\ parentConfig.active_agent_profiles = << >>

\* The child's configuration, once built
C28_ChildConfig(h) ==
    childConfig[h] # NoConfig =>
        /\ childConfig[h].model_reasoning_effort = "low"
        /\ childConfig[h].profile =
              IF args[h].profile # None THEN args[h].profile
              ELSE IF parentConfig.active_agent_profiles # << >>
              THEN parentConfig.active_agent_profiles[1]
              ELSE None
        /\ args[h].profile = None /\ parentConfig.active_agent_profiles = << >> =>
              childConfig[h] = [parentConfig EXCEPT !.model_reasoning_effort = "low"]

\* C28 (profile selection): the child's configuration is loaded for the
\* profile argument if there is one, else for the first of the parent's
\* active agent profiles if there is one, else it is the parent's
\* configuration cloned; in each case its reasoning effort is low, and the
\* parent's configuration stays what it was.
C28_ProfileSelection ==
    /\ [](\A h \in Calls : C28_ChildConfig(h))
    /\ [](parentConfig \in ParentConfigs)
    /\ [][parentConfig' = parentConfig]_vars

\* Without a profile argument the child was configured for the first of the
\* parent's two profiles, its effort low while the parent's stays high, and
\* the call returned its outcome.
C28_Witness ==
    \E h \in Calls :
        /\ hpc[h] = "returned" /\ result[h].content = "outcome"
        /\ args[h].profile = None
        /\ parentConfig = Config(None, <<"agent-b", "agent-a">>, "high")
        /\ childConfig[h] = Config("agent-b", << >>, "low")

-----------------------------------------------------------------------------
(* Checklist validation *)

\* The descriptions of the uncompleted items of a checklist, walked from its head
RECURSIVE C29_Pending(_)
C29_Pending(items) ==
    IF items = << >> THEN << >>
    ELSE IF Head(items).completed THEN C29_Pending(Tail(items))
    ELSE << Head(items).description >> \o C29_Pending(Tail(items))

\* C29 (checklist validation): the result of validate_checklist reports
\* all_completed exactly when every item of the checklist is marked completed,
\* so an empty checklist is successful; total_count is the number of items,
\* completed_count plus the number of incomplete_items equals total_count, and
\* incomplete_items lists the descriptions of the uncompleted items in
\* checklist order.
C29_Validation ==
    validation # NoValidation =>
        LET v == validation[1]
            items == task.checklist
        IN  /\ v.all_completed <=> \A i \in 1..Len(items) : items[i].completed
            /\ items = << >> => v.all_completed
            /\ v.total_count = Len(items)
            /\ v.completed_count + Len(v.incomplete_items) = v.total_count
            /\ v.incomplete_items = C29_Pending(items)

\* A checklist of three items, the second completed, was validated: it is
\* not successful and its two uncompleted items are listed in their order.
C29_Witness ==
    /\ task.checklist = << ChecklistItem("update docs", FALSE),
                           ChecklistItem("write tests", TRUE),
                           ChecklistItem("write tests", FALSE) >>
    /\ validation = SomeValidation(
           ValidationResult(FALSE, 1, 3, << "update docs", "write tests" >>))

-----------------------------------------------------------------------------
(* Output truncation *)

\* C30 (truncator at its limit): the accumulated token count never exceeds
\* the limit and never decreases, the limit never changes, and every
\* truncate_if_needed call on a truncator that has reached its limit returns
\* the fixed text with truncated = true, whatever its content, and leaves the
\* count unchanged and equal to the limit.
C30_AtLimit ==
    /\ [](truncator.accumulated_tokens <= truncator.limit)
    /\ [][/\ truncator'.accumulated_tokens >= truncator.accumulated_tokens
          /\ truncator'.limit = truncator.limit]_vars
    /\ [][is_at_limit(truncator) /\ lastCall' # lastCall =>
              /\ lastCall'.text = << AtLimitText >>
              /\ lastCall'.truncated
              /\ truncator'.accumulated_tokens = truncator.accumulated_tokens
              /\ truncator'.accumulated_tokens = truncator'.limit]_vars

\* A truncator of limit 2 that has admitted 2 tokens answered a further
\* two-character content with the fixed text.
C30_Witness ==
    /\ truncator = [limit |-> 2, accumulated_tokens |-> 2]
    /\ lastCall = Call(<< "a", "a" >>, << AtLimitText >>, TRUE)

-----------------------------------------------------------------------------
(* Empty content *)

\* An empty AgentMessageDelta handled by the monitor of call h leaves the
\* accumulated output, the used-token count and the truncated flag as they were
C31_EmptyDelta(h) ==
    mpc[h] = "delta" /\ mpc'[h] # "delta" /\ Bytes(payload[h].text) = 0 =>
        /\ accumulated_output'[h] = accumulated_output[h]
        /\ output_token_count'[h] = output_token_count[h]
        /\ truncated'[h] = truncated[h]

\* C31 (empty content): a truncate_if_needed call with empty content returns
\* the empty text with truncated = false and leaves the truncator as it was,
\* whatever a truncator of a positive limit admitted before, also when the
\* count already equals the limit; and an empty AgentMessageDelta leaves the
\* monitor's budget unchanged.
C31_EmptyNoOp ==
    /\ [][truncator.limit > 0 /\ lastCall' # lastCall /\ lastCall'.content = << >> =>
              /\ lastCall'.text = << >>
              /\ ~lastCall'.truncated
              /\ truncator' = truncator]_vars
    /\ [][\A h \in Calls : C31_EmptyDelta(h)]_vars

-----------------------------------------------------------------------------
(* Fallback body *)

\* The monitor of call h handled TaskComplete, read no final_markdown from
\* the bridge and sent AgentCompleted
C32_FellBack(h) ==
    /\ TerminalReceived(h) /\ LastEvent(h) = "TaskComplete"
    /\ mfinal[h] = None
    /\ Sent(h, "AgentCompleted")

\* C32 (fallback priority): on TaskComplete with no final_markdown on the
\* bridge the summary body is the accumulated output if that is non-empty,
\* else the message of the TaskComplete event if it carries one, else the
\* text of the last AgentMessage if there was one, else the fixed text.
C32_FallbackPriority ==
    \A h \in Calls :
        C32_FellBack(h) =>
            LET body == Completed(h).detail.body IN
            /\ accumulated_output[h] # << >> => body = "accumulated_output"
            /\ accumulated_output[h] = << >> /\ payload[h].text # NoText =>
                  body = payload[h].text.id
            /\ accumulated_output[h] = << >> /\ payload[h].text = NoText
                  /\ last_message[h] # NoText => body = last_message[h].id
            /\ accumulated_output[h] = << >> /\ payload[h].text = NoText
                  /\ last_message[h] = NoText =>
                  body = "Child agent completed without returning a message."

\* The child streamed output, sent a message and completed with a message,
\* nothing final was on the bridge, and the body is the accumulated output.
C32_Witness ==
    \E h \in Calls :
        /\ C32_FellBack(h)
        /\ accumulated_output[h] # << >>
        /\ last_message[h] # NoText
        /\ payload[h].text = ShortText
        /\ Completed(h).detail.body = "accumulated_output"
        /\ hpc[h] = "returned" /\ result[h].markdown.body = "accumulated_output"

-----------------------------------------------------------------------------
(* AgentMessage against AgentMessageDelta *)

\* The measures of a budget: the chars of its output, its used tokens and
\* its truncated flag
C33_Measures(b) ==
    [chars |-> OutputChars(b.out), tokens |-> b.tokens, truncated |-> b.truncated]

\* The measures of budget b after the delta rule has admitted the text t
\* followed by one line feed
C33_AsDelta(b, t) ==
    IF b.truncated THEN C33_Measures(b)
    ELSE LET delta_tokens == DivCeil(Bytes(t) + 1, 4) IN
         IF b.tokens + delta_tokens <= OUTPUT_TOKEN_LIMIT
         THEN [chars |-> OutputChars(b.out) + t.chars + 1,
               tokens |-> b.tokens + delta_tokens, truncated |-> FALSE]
         ELSE [chars |-> OutputChars(b.out)
                           + Min(t.chars + 1, RemainingTokens(b) * 4) + MarkerChars,
               tokens |-> OUTPUT_TOKEN_LIMIT, truncated |-> TRUE]

\* C33 (message as delta): the budget after the monitor handled
\* AgentMessage(m) is the budget the delta rule gives for m followed by a
\* line feed: the line feed is counted in the token estimate, and a text that
\* does not fit leaves a prefix of the remaining size before the marker.
C33_MessageAsDelta ==
    [][\A h \in Calls :
          mpc[h] = "message" /\ mpc'[h] # "message" =>
              C33_Measures([out |-> accumulated_output'[h],
                            tokens |-> output_token_count'[h],
                            truncated |-> truncated'[h]])
                  = C33_AsDelta(Budget(h), payload[h].text)]_vars

-----------------------------------------------------------------------------
(* Admission of a delta *)

\* What the monitor of call h, its budget not yet truncated, does with the
\* delta it handles in this step
C34_Admission(h) ==
    mpc[h] = "delta" /\ mpc'[h] # "delta" /\ ~truncated[h] =>
        LET t == payload[h].text
            used == output_token_count[h]
            delta_tokens == (Bytes(t) + 3) \div 4
            remaining_tokens == OUTPUT_TOKEN_LIMIT - used
            prefix == IF t.chars <= remaining_tokens * 4 THEN t.chars
                      ELSE remaining_tokens * 4
        IN  IF used + delta_tokens > OUTPUT_TOKEN_LIMIT
            THEN /\ accumulated_output'[h] =
                        IF prefix = 0 THEN accumulated_output[h] \o << Marker >>
                        ELSE accumulated_output[h]
                                 \o << [t EXCEPT !.chars = prefix], Marker >>
                 /\ OutputChars(accumulated_output'[h]) =
                        OutputChars(accumulated_output[h]) + prefix + MarkerChars
                 /\ remaining_tokens = 0 => prefix = 0
                 /\ truncated'[h]
                 /\ output_token_count'[h] = OUTPUT_TOKEN_LIMIT
            ELSE /\ accumulated_output'[h] =
                        IF t.chars = 0 THEN accumulated_output[h]
                        ELSE accumulated_output[h] \o << t >>
                 /\ output_token_count'[h] = used + delta_tokens
                 /\ ~truncated'[h]

\* C34 (delta admission): a delta whose token estimate, the byte length
\* divided by 4 and rounded up, would take the used-token count of a budget
\* not yet truncated above the cap leaves the first remaining_tokens * 4
\* characters of the delta (none when remaining_tokens is 0) and then the
\* marker in the output, sets truncated and sets the count to the cap; a delta
\* that fits, also one that makes the count equal to the cap, is appended
\* whole and does not set truncated.
C34_DeltaAdmission == [][\A h \in Calls : C34_Admission(h)]_vars

\* A first delta filled the budget exactly and was kept whole; the next one
\* found no token left and left the marker only.
C34_Witness ==
    \E h \in Calls :
        /\ recv[h] = << "AgentMessageDelta", "AgentMessageDelta" >>
        /\ mpc[h] # "delta"
        /\ accumulated_output[h] = << FullText, Marker >>
        /\ truncated[h] /\ output_token_count[h] = OUTPUT_TOKEN_LIMIT

-----------------------------------------------------------------------------
(* Active-child index *)

\* An entry appears in the index under agent id t only by the handler of a
\* call with that task id, after its prompt was submitted and before its
\* monitor is started
C35_Added(t) ==
    activeChildren'[t] # activeChildren[t] /\ activeChildren'[t] # None =>
        \E h \in Calls :
            /\ hpc[h] = "register_child" /\ hpc'[h] = "spawn_monitor"
            /\ args[h].task_id = t /\ activeChildren'[t] = conv[h]
            /\ child[h] = "running" /\ herr[h] = None
            /\ mpc[h] = None /\ mpc'[h] = None

\* An entry disappears from the index under agent id t only by the monitor
\* of a call with that task id, after it sent AgentCompleted and before it
\* sent the outcome
C35_Removed(t) ==
    activeChildren'[t] # activeChildren[t] /\ activeChildren'[t] = None =>
        \E h \in Calls :
            /\ mpc[h] = "unregister_child" /\ mpc'[h] # mpc[h]
            /\ args[h].task_id = t
            /\ TerminalReceived(h) /\ Sent(h, "AgentCompleted")
            /\ chan[h].state = "open"

\* No other call was given the task id of call h: the agent id names the
\* child of h alone
C35_OwnAgentId(h) == \A g \in Calls \ {h} : args[g].task_id # args[h].task_id

\* Every terminal path of the monitor of call h passes the removal
C35_TerminalRemoves(h) ==
    /\ mpc[h] = "unregister_child" /\ mpc'[h] # mpc[h] =>
          activeChildren'[args[h].task_id] = None
    /\ chan[h].state = "open" /\ chan'[h].state = "sent" /\ C35_OwnAgentId(h) =>
          activeChildren[args[h].task_id] = None

\* A call that returned a received outcome finds its child's agent id no
\* longer in the index
C35_ReturnedUnregistered(h) ==
    hpc[h] = "returned" /\ result[h].content = "outcome" /\ C35_OwnAgentId(h) =>
        activeChildren[args[h].task_id] = None

-----------------------------------------------------------------------------
(* The monitor's read and write of final_markdown *)

\* C36 (atomic read and write): the monitor's write of the fallback body
\* never replaces a final_markdown written by return_progress: when the
\* monitor writes, the bridge still holds what the monitor read, nothing; and
\* a final_markdown written with is_final stays on the bridge.
C36_FallbackNeverOverwrites ==
    [][\A h \in Calls :
          /\ mpc[h] = "set_final" /\ mpc'[h] # mpc[h] =>
                bridgeState[h].final_markdown = mfinal[h]
          /\ bridgeState[h].final_markdown \in
                 {ProgressTexts[n] : n \in 1..Len(ProgressTexts)} =>
                bridgeState'[h].final_markdown \in
                    {ProgressTexts[n] : n \in 1..Len(ProgressTexts)}]_vars

-----------------------------------------------------------------------------
(* The parent session seen from the bridge *)

\* The monitor task of call h is running
C37_MonitorRuns(h) == mpc[h] \notin {None, "done"}

\* The return_progress call of the child of h fails in this step because the
\* parent session is gone
C37_FailsParentGone(h) ==
    /\ rpc[h] = "check" /\ rpc'[h] = "idle"
    /\ rpResult'[h].status = "ParentGone"

\* While a monitor runs the bridge's parent_session() resolves
C37_ResolvesWhileMonitorRuns ==
    \A h \in Calls : C37_MonitorRuns(h) => ParentSession(h) # None

-----------------------------------------------------------------------------
(* One AgentCompleted, nothing read after the terminal event *)

\* The number of AgentCompleted events sent for call h
C38_CompletedCount(h) ==
    Len(SelectSeq(sink[h], LAMBDA e : e.type = "AgentCompleted"))

\* At most one AgentCompleted; an ended monitor has sent one if it received
\* a terminal event and none if the stream closed first; a terminal event is
\* the last event the monitor received
C38_AtMostOne(h) ==
    /\ C38_CompletedCount(h) <= 1
    /\ mpc[h] = "done" =>
          C38_CompletedCount(h) = IF TerminalReceived(h) THEN 1 ELSE 0
    /\ child[h] = "closed" => C38_CompletedCount(h) = 0 /\ ~TerminalReceived(h)
    /\ \A i \in 1..(Len(recv[h]) - 1) : recv[h][i] \notin TerminalKinds

\* Once the monitor of h has received a terminal event it receives nothing
\* more, and once it has forwarded that event its steps send the parent no
\* further AgentEvent and no AgentProgress
C38_NothingAfterTerminal(h) ==
    TerminalReceived(h) =>
        /\ recv'[h] = recv[h]
        /\ mpc[h] # "forward" /\ mpc'[h] # mpc[h] /\ sink'[h] # sink[h] =>
              /\ Len(sink'[h]) = Len(sink[h]) + 1
              /\ sink'[h][Len(sink'[h])].type \in {"AgentCompleted", "BackgroundEvent"}

\* C38 (one completion): the monitor sends at most one AgentCompleted, one if
\* it received a terminal event and none if the stream closed first; after
\* the first terminal event it reads no further event of the child, so
\* nothing the child produces afterwards is forwarded or becomes progress.
C38_SingleCompletion ==
    /\ [](\A h \in Calls : C38_AtMostOne(h))
    /\ [][\A h \in Calls : C38_NothingAfterTerminal(h)]_vars

\* The monitor ended after an event it forwarded and a terminal event, with
\* one AgentCompleted sent and the child's stream still open.
C38_Witness ==
    \E h \in Calls :
        /\ mpc[h] = "done" /\ recv[h] = << "TaskStarted", "TurnAborted" >>
        /\ C38_CompletedCount(h) = 1
        /\ StreamOpen(h)

-----------------------------------------------------------------------------
(* Siblings *)

\* The monitor of call h, past a terminal event or at its exit, or the
\* return_progress call of the child of h takes this step
C39_StepOf(h) ==
    \/ mpc'[h] # mpc[h] /\ (TerminalReceived(h) \/ mpc[h] = "exit_remove")
    \/ rpc'[h] # rpc[h]
    \/ rpCount'[h] # rpCount[h]

\* A step of h's monitor or of h's child leaves the sibling g, a different
\* conversation, as it was: its bridge state, its registration, its outcome
\* channel and its spawn_agent call
C39_Frame(h, g) ==
    C39_StepOf(h) /\ conv[g] # conv[h] =>
        /\ bridgeState'[g] = bridgeState[g]
        /\ (\E e \in registry' : e.bridge = g) = HasRegistered(g)
        /\ chan'[g] = chan[g]
        /\ hpc'[g] = hpc[g] /\ result'[g] = result[g]
        /\ \A e \in registry \ registry' : e.conversation_id = conv[h]

\* The bridge of g leaves the registry, and the channel of g is resolved,
\* only by a step of g's own monitor; g's call leaves its wait only on its
\* own resolved channel
C39_OwnMonitorOnly(h, g) ==
    conv[g] # conv[h] =>
        /\ HasRegistered(g) /\ ~(\E e \in registry' : e.bridge = g) =>
              mpc[g] \in {"remove_bridge", "exit_remove"} /\ mpc'[g] # mpc[g]
        /\ chan[g].state = "open" /\ chan'[g].state # "open" =>
              mpc[g] \in {"send_outcome", "exit_remove"} /\ mpc'[g] # mpc[g]
        /\ hpc[g] = "await" /\ hpc'[g] = "returned" => chan[g].state \in {"sent", "closed"}

\* C39 (siblings are independent): with several children of one parent
\* running, the terminal handling of a child's monitor and the child's
\* return_progress change only that child's bridge state, remove only its
\* conversation id from the registry and resolve only its outcome channel;
\* a sibling's bridge stays registered and its spawn_agent call stays blocked
\* until the sibling's own monitor removes the bridge and resolves the channel.
C39_SiblingFrame ==
    [][\A h \in Calls : \A g \in Calls \ {h} :
          C39_Frame(h, g) /\ C39_OwnMonitorOnly(h, g)]_vars

\* The first child reported a final result and its call returned, while the
\* second child is still registered, its bridge untouched and its call blocked.
C39_Witness ==
    /\ hpc["call-1"] = "returned" /\ result["call-1"].content = "outcome"
    /\ mpc["call-1"] = "done" /\ ~HasRegistered("call-1")
    /\ rpResult["call-1"] = ProgressOk(TRUE)
    /\ conv["call-2"] # conv["call-1"]
    /\ HasRegistered("call-2") /\ hpc["call-2"] = "await" /\ chan["call-2"].state = "open"
    /\ bridgeState["call-2"] = [last_progress |-> None, final_markdown |-> None]

-----------------------------------------------------------------------------
(* The stream closes without a terminal event *)

\* The events of the given type the monitor of call h sent to the parent
C40_SentCount(h, type) ==
    Len(SelectSeq(sink[h], LAMBDA e : e.type = type))

\* A failed next_event leads straight to the remove after the loop, and that
\* step only removes the bridge and drops the sender: the index, the
\* parent's pending input, the parent's event queue and the bridge states
\* are left as they were
C40_ExitOnlyRemoves(h) ==
    /\ child[h] # "closed" /\ child'[h] = "closed" =>
          mpc[h] = "next_event" /\ mpc'[h] = "exit_remove"
    /\ child[h] = "closed" /\ mpc[h] = "exit_remove" /\ mpc'[h] # mpc[h] =>
          /\ mpc'[h] = "done"
          /\ activeChildren' = activeChildren
          /\ injected' = injected
          /\ sink' = sink
          /\ bridgeState' = bridgeState
          /\ registry' = { e \in registry : e.conversation_id # conv[h] }
          /\ chan'[h].state = "closed"

\* After the stream closed nothing was injected, no AgentCompleted and no
\* BackgroundEvent was sent, and no outcome is ever sent
C40_ClosedSendsNothing(h) ==
    child[h] = "closed" =>
        /\ injected[h] = None
        /\ C40_SentCount(h, "AgentCompleted") = 0
        /\ C40_SentCount(h, "BackgroundEvent") = 0
        /\ chan[h].state # "sent"
        /\ ~TerminalReceived(h)

\* A call that returned the failure of a closed channel still finds its
\* child's agent id, which names that child alone, in the index
C40_StillIndexed(h) ==
    hpc[h] = "returned" /\ result[h] = ClosedResult(args[h].task_id) =>
        /\ child[h] = "closed" /\ mpc[h] = "done"
        /\ C35_OwnAgentId(h) => activeChildren[args[h].task_id] = conv[h]

====
